---- MODULE Spec2Model ----
(***************************************************************************)
(* Smart-Expense: the recurring-transaction materializer of App, the      *)
(* summary / budget evaluator of SummaryDashboard, the currency converter, *)
(* the Gemini service, the transaction and rule forms, the budget manager  *)
(* and the local-storage mirror of App.                                    *)
(*                                                                         *)
(* A JavaScript Date object is modelled by its time value counted in whole *)
(* hours since 1970-01-01T00:00Z.  A "YYYY-MM-DD" string is modelled by    *)
(* the triple <<year, month, day>> (month 1..12).  The browser's local     *)
(* time zone is the variable tz: local time = UTC + tz hours.              *)
(***************************************************************************)
EXTENDS Integers, Sequences, FiniteSets, TLC

VARIABLES
    now,                          \* what new Date() / Date.now() returns, in hours
    tz,                           \* local time zone offset of the browser, in hours
    transactions,                 \* App state: Transaction[]
    recurringTransactions,        \* App state: RecurringTransaction[]
    editingRecurringTransaction,  \* App state: the rule being edited, or Null
    effectPending,                \* the reconciliation effect's dependencies changed
    lastPass,                     \* arguments and result of the last reconciliation pass
    nextId,                       \* orders the Date.now() ids: the number of rules created so far
    ticks,                        \* days elapsed since the application was opened
    saves,                        \* saves of the rule form so far
    passes,                       \* reconciliation passes run since the last user action
    currentPeriod,                \* SummaryDashboard state: 'daily' | 'weekly' | 'monthly'
    selectedCurrency,             \* App state handed to SummaryDashboard
    budgets,                      \* App state: Budget[]
    budgetAlertPercentage,        \* App state: alert threshold in percent
    rendered,                     \* what SummaryDashboard computed in its last render
    converter,                    \* CurrencyConverter state and its pending timer
    currentView,                  \* App state: the view shown
    editingTransaction,           \* App state: the transaction being edited, or Null
    userCategoryOverrides,        \* App state: CategoryOverride[]
    form,                         \* state of the mounted TransactionForm / RecurringTransactionForm
    calls,                        \* categorizeTransaction calls of the form still in flight
    insights,                     \* SummaryDashboard state: insights text and its call
    lastCall,                     \* the service call that settled in the last step
    lastSubmit,                   \* the submit, edit or delete click of the last step
    budgetManager,                \* state of the mounted BudgetManager, or Null
    transactionList,              \* state of the mounted TransactionList, or Null
    localStorage,                 \* the browser's local storage under the six keys of App
    startup                       \* how far the mount of App has come

vars == <<now, tz, transactions, recurringTransactions, editingRecurringTransaction,
          effectPending, lastPass, nextId, ticks, saves, passes, currentPeriod, selectedCurrency,
          budgets, budgetAlertPercentage, rendered, converter, currentView,
          editingTransaction, userCategoryOverrides, form, calls, insights, lastCall,
          lastSubmit, budgetManager, transactionList, localStorage, startup>>

appVars == <<transactions, recurringTransactions, editingRecurringTransaction,
             effectPending, lastPass, nextId, ticks, saves, passes>>

dashVars == <<currentPeriod, selectedCurrency, budgets, budgetAlertPercentage, rendered>>

formVars == <<currentView, editingTransaction, userCategoryOverrides, form, calls,
              insights, lastCall, lastSubmit, budgetManager>>

extVars == <<converter, formVars>>

storeVars == <<localStorage, startup>>

Null == [null |-> TRUE]

-----------------------------------------------------------------------------
(* Bounds of the model.                                                    *)

MaxSaves == 2       \* saves of the rule form (new rules and saves) in a run
MaxTicks == 1       \* days that pass while the application is open
MaxPasses == 2      \* consecutive reconciliation passes the model follows
MaxTxs == 3         \* length of the stored transaction list the dashboard is opened on
MaxCalls == 2       \* categorization calls in flight at a time
MaxFormSaves == 1   \* saves through a form after the application opened

-----------------------------------------------------------------------------
(* Local storage.  A stored text is modelled by what it was made from:      *)
(* JSON.stringify(v) is [json |-> v], the string a setItem stores as it is  *)
(* (a currency code, a number's toString) is [text |-> v]; getItem of a key *)
(* that was never set is Null.                                              *)

Stringify(value) == [json |-> value]

Text(value) == [text |-> value]

\* What the six write-through effects store for the given state.
Mirror(txs, rts, bs, overrides, currency, percentage) ==
    [smartExpenseTransactions          |-> Stringify(txs),
     smartExpenseRecurringTransactions |-> Stringify(rts),
     smartExpenseBudgets               |-> Stringify(bs),
     smartExpenseCategoryOverrides     |-> Stringify(overrides),
     smartExpenseSelectedCurrency      |-> Text(currency),
     smartExpenseBudgetAlertPercentage |-> Text(percentage)]

\* App is mounted and its first state updates are rendered.
Ready == [phase |-> "ready"]

\* TransactionList as it is mounted; its selection effect, run on the empty
\* selection of the first render, has left the empty selection.
TransactionListMounted ==
    [filterType             |-> "all",
     filterCurrency         |-> "ALL",
     sortOrder              |-> "desc",
     startDate              |-> <<>>,
     endDate                |-> <<>>,
     selectedTransactionIds |-> {},
     selectionEffectPending |-> FALSE]

\* The render of App after a handler: TransactionList is mounted while the view is
\* 'viewTransactions', and a new transactions array gives it new sortedTransactions,
\* the dependency of its selection effect.
TransactionListRenders ==
    transactionList' =
        IF currentView' # "viewTransactions" THEN Null
        ELSE IF currentView # "viewTransactions" THEN TransactionListMounted
        ELSE [transactionList EXCEPT
                  !.selectionEffectPending = @ \/ transactions' # transactions]

\* The write-through effects after the render that follows a handler: each runs
\* when its dependency changed.
PersistEffects ==
    /\ startup = Ready
    /\ localStorage' =
           [smartExpenseTransactions |->
                IF transactions' # transactions THEN Stringify(transactions')
                ELSE localStorage.smartExpenseTransactions,
            smartExpenseRecurringTransactions |->
                IF recurringTransactions' # recurringTransactions
                THEN Stringify(recurringTransactions')
                ELSE localStorage.smartExpenseRecurringTransactions,
            smartExpenseBudgets |->
                IF budgets' # budgets THEN Stringify(budgets')
                ELSE localStorage.smartExpenseBudgets,
            smartExpenseCategoryOverrides |->
                IF userCategoryOverrides' # userCategoryOverrides
                THEN Stringify(userCategoryOverrides')
                ELSE localStorage.smartExpenseCategoryOverrides,
            smartExpenseSelectedCurrency |->
                IF selectedCurrency' # selectedCurrency THEN Text(selectedCurrency')
                ELSE localStorage.smartExpenseSelectedCurrency,
            smartExpenseBudgetAlertPercentage |->
                IF budgetAlertPercentage' # budgetAlertPercentage
                THEN Text(budgetAlertPercentage')
                ELSE localStorage.smartExpenseBudgetAlertPercentage]
    /\ startup' = startup

-----------------------------------------------------------------------------
(* The proleptic Gregorian calendar behind Date.                           *)

DaysFromCivil(y, m, d) ==
    LET yy  == IF m <= 2 THEN y - 1 ELSE y
        era == yy \div 400
        yoe == yy - era * 400
        mp  == IF m > 2 THEN m - 3 ELSE m + 9
        doy == (153 * mp + 2) \div 5 + d - 1
        doe == yoe * 365 + yoe \div 4 - yoe \div 100 + doy
    IN  era * 146097 + doe - 719468

CivilFromDays(z) ==
    LET zz  == z + 719468
        era == zz \div 146097
        doe == zz - era * 146097
        yoe == (doe - doe \div 1460 + doe \div 36524 - doe \div 146096) \div 365
        doy == doe - (365 * yoe + yoe \div 4 - yoe \div 100)
        mp  == (5 * doy + 2) \div 153
        d   == doy - (153 * mp + 2) \div 5 + 1
        m   == IF mp < 10 THEN mp + 3 ELSE mp - 9
        y   == yoe + era * 400 + (IF m <= 2 THEN 1 ELSE 0)
    IN  <<y, m, d>>

\* ECMAScript MakeDay: month is 0-based and may exceed 11, date may exceed the
\* month's length; both overflow into the following months.
MakeDay(year, month, date) ==
    DaysFromCivil(year + month \div 12, (month % 12) + 1, 1) + date - 1

\* new Date("YYYY-MM-DD"): a date-only ISO string is UTC midnight of that day.
ParseDate(s) == DaysFromCivil(s[1], s[2], s[3]) * 24

\* date.toISOString().split('T')[0]: the UTC calendar day of the time value.
ToISODate(t) == CivilFromDays(t \div 24)

\* The local-time fields of a Date.
LocalDay(t) == (t + tz) \div 24
LocalHours(t) == (t + tz) % 24
GetFullYear(t) == CivilFromDays(LocalDay(t))[1]
GetMonth(t) == CivilFromDays(LocalDay(t))[2] - 1
GetDate(t) == CivilFromDays(LocalDay(t))[3]
GetDay(t) == (LocalDay(t) + 4) % 7

\* The time value of local year / month / date at the local time of day of t.
WithLocalDay(t, year, month, date) == MakeDay(year, month, date) * 24 + LocalHours(t) - tz

\* date.setHours(0, 0, 0, 0): local midnight of the local calendar day.
SetHoursZero(t) == LocalDay(t) * 24 - tz

\* date.setDate(n), date.setMonth(m), date.setFullYear(y): the local time of day is kept.
SetDate(t, n) == WithLocalDay(t, GetFullYear(t), GetMonth(t), n)
SetMonth(t, m) == WithLocalDay(t, GetFullYear(t), m, GetDate(t))
SetFullYear(t, y) == WithLocalDay(t, y, GetMonth(t), GetDate(t))

addDays(date, days) == SetDate(date, GetDate(date) + days)

addMonths(date, months) == SetMonth(date, GetMonth(date) + months)

addYears(date, years) == SetFullYear(date, GetFullYear(date) + years)

-----------------------------------------------------------------------------
(* Records.                                                                *)

\* Date.now().toString(): the id of a record created by a form.
StampId(n) == [n |-> n, date |-> <<>>]

\* `${rt.id}-${date}`: the id of a materialized transaction.
OccurrenceId(ruleId, date) == [n |-> ruleId, date |-> date]

TimeZones == {-5, 0, 2}

Frequencies == {"daily", "weekly", "monthly", "yearly"}

\* What the user enters in the rule form: a frequency and a start date.
RuleInputs ==
    {<<"daily",   <<2024, 2, 29>>>>,
     <<"weekly",  <<2024, 2, 24>>>>,
     <<"monthly", <<2024, 1, 31>>>>,
     <<"yearly",  <<2024, 3, 4>>>>}

\* The start dates the user changes an edited rule to.
EditDates == {<<2024, 1, 31>>, <<2024, 3, 4>>}

OpenedAt == ParseDate(<<2024, 3, 2>>) + 12

NoPass == [ran |-> FALSE]

-----------------------------------------------------------------------------
(* processRecurringTransactions.                                           *)

HasId(txs, id) == \E i \in DOMAIN txs : txs[i].id = id

StepDate(frequency, date) ==
    CASE frequency = "daily"   -> addDays(date, 1)
      [] frequency = "weekly"  -> addDays(date, 7)
      [] frequency = "monthly" -> addMonths(date, 1)
      [] frequency = "yearly"  -> addYears(date, 1)
      [] OTHER                 -> addDays(date, 1)

OccurrenceTx(rt, date) ==
    [id           |-> OccurrenceId(rt.id, ToISODate(date)),
     description  |-> rt.description,
     amount       |-> rt.amount,
     type         |-> rt.type,
     date         |-> ToISODate(date),
     category     |-> rt.category,
     notes        |-> rt.notes,
     currencyCode |-> rt.currencyCode]

\* A materializer without the id check: every occurrence is pushed.
EmitOccurrenceUnchecked(rt, date, currentTransactions) == <<OccurrenceTx(rt, date)>>

\* The transactions one rule pushes: only the ids already in currentTransactions
\* are skipped.
EmitOccurrence(rt, date, currentTransactions) ==
    IF ~HasId(currentTransactions, OccurrenceId(rt.id, ToISODate(date)))
    THEN <<OccurrenceTx(rt, date)>>
    ELSE <<>>

\* The while loop of one rule: pushed holds the transactions pushed so far; the
\* result is the transactions pushed and the final currentNextOccurrence.
RECURSIVE Materialize(_, _, _, _, _)
Materialize(rt, currentNextOccurrence, today, currentTransactions, pushed) ==
    IF currentNextOccurrence <= today
    THEN Materialize(rt, StepDate(rt.frequency, currentNextOccurrence), today,
                     currentTransactions,
                     pushed \o EmitOccurrence(rt, currentNextOccurrence,
                                              currentTransactions))
    ELSE [txs |-> pushed, next |-> currentNextOccurrence]

\* currentNextOccurrence before the loop.
RuleStart(rt) == SetHoursZero(ParseDate(rt.nextOccurrenceDate))

\* One call of the map callback: rt is the rule, loop the outcome of its loop
\* (nothing pushed and the date unchanged when the rule is not due).
MapRule(acc, rt, due, loop) ==
    [newTransactions |-> acc.newTransactions \o loop.txs,
     updatedRecurringTxs |->
         Append(acc.updatedRecurringTxs,
                [rt EXCEPT !.nextOccurrenceDate = ToISODate(loop.next)]),
     anyRecurringNextOccurrenceChanged |->
         acc.anyRecurringNextOccurrenceChanged \/ due]

RECURSIVE MapRules(_, _, _, _, _)
MapRules(rules, i, today, currentTransactions, acc) ==
    IF i > Len(rules) THEN acc
    ELSE MapRules(rules, i + 1, today, currentTransactions,
                  MapRule(acc, rules[i], RuleStart(rules[i]) <= today,
                          Materialize(rules[i], RuleStart(rules[i]), today,
                                      currentTransactions, <<>>)))

processRecurringTransactions(currentRecurringTransactions, currentTransactions) ==
    MapRules(currentRecurringTransactions, 1, SetHoursZero(now), currentTransactions,
             [newTransactions |-> <<>>,
              updatedRecurringTxs |-> <<>>,
              anyRecurringNextOccurrenceChanged |-> FALSE])

-----------------------------------------------------------------------------
(* The reconciliation effect of App.                                       *)

DateStringBefore(s, t) ==
    \/ s[1] < t[1]
    \/ s[1] = t[1] /\ s[2] < t[2]
    \/ s[1] = t[1] /\ s[2] = t[2] /\ s[3] < t[3]

\* a.localeCompare(b) < 0 for ids: the decimal stamps have equal length, and a
\* stamp sorts before the same stamp followed by "-YYYY-MM-DD".
IdBefore(a, b) ==
    \/ a.n < b.n
    \/ a.n = b.n /\ a.date = <<>> /\ b.date # <<>>
    \/ a.n = b.n /\ a.date # <<>> /\ b.date # <<>> /\ DateStringBefore(a.date, b.date)

\* The comparator of the sort is negative.
TxBefore(a, b) ==
    \/ ParseDate(a.date) < ParseDate(b.date)
    \/ ParseDate(a.date) = ParseDate(b.date) /\ IdBefore(a.id, b.id)

\* x put into the sorted sequence s behind every element that does not compare
\* after it.
InsertSorted(s, x) ==
    LET p == Cardinality({j \in DOMAIN s : ~TxBefore(x, s[j])})
    IN  SubSeq(s, 1, p) \o <<x>> \o SubSeq(s, p + 1, Len(s))

RECURSIVE SortFrom(_, _, _)
SortFrom(s, i, sorted) ==
    IF i > Len(s) THEN sorted
    ELSE SortFrom(s, i + 1, InsertSorted(sorted, s[i]))

\* Array.prototype.sort with that comparator (a stable sort).
SortTxs(s) == SortFrom(s, 1, <<>>)

\* The updater handed to setTransactions.
MergeNewTransactions(prevTxs, newTransactions) ==
    LET uniqueNewTransactions ==
            SelectSeq(newTransactions, LAMBDA newTx : ~HasId(prevTxs, newTx.id))
    IN  SortTxs(prevTxs \o uniqueNewTransactions)

ReconcileEffect ==
    /\ effectPending
    /\ IF Len(recurringTransactions) > 0
       THEN \E r \in {processRecurringTransactions(recurringTransactions, transactions)} :
                /\ transactions' =
                       IF Len(r.newTransactions) > 0
                       THEN MergeNewTransactions(transactions, r.newTransactions)
                       ELSE transactions
                /\ recurringTransactions' =
                       IF r.anyRecurringNextOccurrenceChanged
                       THEN r.updatedRecurringTxs
                       ELSE recurringTransactions
                /\ effectPending' = (Len(r.newTransactions) > 0
                                       \/ r.anyRecurringNextOccurrenceChanged)
                /\ passes < MaxPasses
                /\ passes' = passes + 1
                /\ lastPass' = [ran    |-> TRUE,
                                rules  |-> recurringTransactions,
                                txs    |-> transactions,
                                today  |-> SetHoursZero(now),
                                result |-> r]
       ELSE /\ effectPending' = FALSE
            /\ UNCHANGED <<transactions, recurringTransactions, lastPass, passes>>
    /\ UNCHANGED <<now, tz, editingRecurringTransaction, nextId, ticks, saves>>
    /\ UNCHANGED dashVars
    /\ UNCHANGED extVars
    /\ PersistEffects
    /\ TransactionListRenders

-----------------------------------------------------------------------------
(* TransactionForm and RecurringTransactionForm: the two components hold    *)
(* the same state and handlers; form.kind tells which one is mounted and    *)
(* form.date is the date field (startDate in the rule form).  The text of   *)
(* the amount field is <<>> when empty and <<n>> for the number n; an empty *)
(* date field is <<>>.                                                      *)

\* The value undefined, distinct from every string of the model.
Undefined == "undefined"

\* DEFAULT_CATEGORIES of constants.
DEFAULT_CATEGORIES == <<"Food", "Transport", "Others">>

\* The descriptions typed into the form.
Descriptions == {"  ", "tea", "Coffee", "coffee"}

\* s.trim()
Trim(s) == IF s = "  " THEN "" ELSE s

\* s.trim().length
TrimLength(s) ==
    CASE s = "" \/ s = "  " -> 0
      [] s = "tea"          -> 3
      [] OTHER              -> 6

\* s.toLowerCase()
ToLowerCase(s) == IF s = "Coffee" THEN "coffee" ELSE s

\* Truthiness of a string | undefined.
Truthy(s) == s # Undefined /\ s # ""

\* The condition of the effect that shows the feedback prompt.
PromptCondition(f) ==
    /\ ~f.isCategoryOverrideConfirmed
    /\ Truthy(f.aiSuggestedCategory)
    /\ f.category # f.aiSuggestedCategory
    /\ f.category # "Others"

\* The prompt effect after a handler took the form from old to new: it runs when
\* one of its dependencies changed.
RunPromptEffect(old, new) ==
    IF <<old.category, old.aiSuggestedCategory, old.isCategoryOverrideConfirmed>>
           # <<new.category, new.aiSuggestedCategory, new.isCategoryOverrideConfirmed>>
    THEN [new EXCEPT !.showCategoryFeedbackPrompt = PromptCondition(new)]
    ELSE new

\* The form as it is mounted for initialData (Null for a new record).
MountForm(kind, initialData) ==
    IF initialData # Null
    THEN [kind                        |-> kind,
          initialData                 |-> initialData,
          description                 |-> initialData.description,
          amount                      |-> <<initialData.amount>>,
          date                        |-> IF kind = "recurring" THEN initialData.startDate
                                          ELSE initialData.date,
          category                    |-> initialData.category,
          isLoadingCategory           |-> FALSE,
          error                       |-> Null,
          aiSuggestedCategory         |-> initialData.category,
          showCategoryFeedbackPrompt  |-> FALSE,
          isCategoryOverrideConfirmed |-> FALSE]
    ELSE [kind                        |-> kind,
          initialData                 |-> Null,
          description                 |-> "",
          amount                      |-> <<>>,
          date                        |-> ToISODate(now),
          category                    |-> "Others",
          isLoadingCategory           |-> FALSE,
          error                       |-> Null,
          aiSuggestedCategory         |-> Undefined,
          showCategoryFeedbackPrompt  |-> FALSE,
          isCategoryOverrideConfirmed |-> FALSE]

\* The insights panel of SummaryDashboard before the first request.
NoInsights ==
    [insights |-> "Click \"Get AI Insights\" to analyze your spending.",
     isLoadingInsights |-> FALSE,
     pending |-> FALSE]

-----------------------------------------------------------------------------
(* The handlers of App and the submit of RecurringTransactionForm.         *)

\* handleSubmit of RecurringTransactionForm followed by
\* handleSaveRecurringTransaction.
SaveRecurringTransaction(frequency, startDate, amount) ==
    LET initialData == editingRecurringTransaction
        rt == [id                 |-> IF initialData # Null THEN initialData.id ELSE nextId,
               description        |-> "rent",
               amount             |-> amount,
               type               |-> "expense",
               category           |-> "Housing",
               frequency          |-> frequency,
               startDate          |-> startDate,
               nextOccurrenceDate |-> IF initialData # Null
                                      THEN initialData.nextOccurrenceDate
                                      ELSE startDate,
               notes              |-> "",
               currencyCode       |-> "USD"]
    IN  /\ saves < MaxSaves
        /\ initialData = Null => <<frequency, startDate>> \in RuleInputs
        /\ initialData # Null => /\ frequency = initialData.frequency
                                 /\ startDate \in EditDates
        /\ saves' = saves + 1
        /\ recurringTransactions' =
               IF initialData # Null
               THEN [i \in DOMAIN recurringTransactions |->
                        IF recurringTransactions[i].id = rt.id
                        THEN rt ELSE recurringTransactions[i]]
               ELSE Append(recurringTransactions, rt)
        /\ nextId' = IF initialData # Null THEN nextId ELSE nextId + 1
        /\ editingRecurringTransaction' = Null
        /\ effectPending' = TRUE
        /\ lastPass' = NoPass
        /\ passes' = 0
        /\ currentView' = "viewRecurringTransactions"
        /\ form' = Null
        /\ calls' = <<>>
        /\ UNCHANGED <<now, tz, transactions, ticks>>
        /\ UNCHANGED dashVars
        /\ UNCHANGED <<converter, editingTransaction, userCategoryOverrides, insights,
                       lastCall, lastSubmit, budgetManager>>
        /\ PersistEffects
        /\ TransactionListRenders

handleEditRecurringTransaction(i) ==
    /\ i \in DOMAIN recurringTransactions
    /\ currentView = "viewRecurringTransactions"
    /\ saves < MaxSaves
    /\ editingRecurringTransaction = Null
    /\ editingRecurringTransaction' = recurringTransactions[i]
    /\ currentView' = "addRecurringTransaction"
    /\ form' = MountForm("recurring", recurringTransactions[i])
    /\ calls' = <<>>
    /\ UNCHANGED <<now, tz, transactions, recurringTransactions, effectPending,
                   lastPass, nextId, ticks, saves, passes>>
    /\ lastCall' = Null
    /\ lastSubmit' = [onEdit |-> recurringTransactions[i]]
    /\ UNCHANGED dashVars
    /\ UNCHANGED <<converter, editingTransaction, userCategoryOverrides, insights,
                   budgetManager>>
    /\ PersistEffects
    /\ TransactionListRenders

\* A day passes while the application stays open; no effect depends on the clock.
Tick ==
    /\ ticks < MaxTicks
    /\ now' = now + 24
    /\ ticks' = ticks + 1
    /\ lastPass' = NoPass
    /\ passes' = 0
    /\ UNCHANGED <<tz, transactions, recurringTransactions, editingRecurringTransaction,
                   effectPending, nextId, saves>>
    /\ UNCHANGED dashVars
    /\ UNCHANGED extVars
    /\ PersistEffects
    /\ TransactionListRenders

-----------------------------------------------------------------------------
(* CurrencyConverter.  A number is the fraction num / den; the text of the  *)
(* amount field is <<>> when empty and <<n>> when it holds the number n.    *)

\* CURRENCY_OPTIONS of constants: the codes the selects offer, in order.
CURRENCY_OPTIONS == <<"USD", "EUR", "GBP", "XXX">>

\* hardcodedExchangeRates of constants, in tenths: USD 1, EUR 0.9, GBP 0.8; a
\* code outside the domain has no rate (undefined).
hardcodedExchangeRates == [USD |-> 10, EUR |-> 9, GBP |-> 8]

\* CURRENCY_OPTIONS.find(c => c.code !== selectedCurrency)?.code || DEFAULT
OtherCurrency(code) ==
    LET others == SelectSeq(CURRENCY_OPTIONS, LAMBDA c : c # code)
    IN  IF others # <<>> THEN others[1] ELSE "USD"

\* The state of the component when it is mounted.
ConverterMounted(currency) ==
    [fromAmount      |-> <<>>,
     fromCurrency    |-> currency,
     toCurrency      |-> OtherCurrency(currency),
     convertedAmount |-> Null,
     error           |-> Null,
     isLoading       |-> FALSE,
     timer           |-> Null,
     request         |-> Null]

Init ==
    /\ now = OpenedAt
    /\ tz \in TimeZones
    /\ transactions = <<>>
    /\ recurringTransactions = <<>>
    /\ editingRecurringTransaction = Null
    /\ effectPending = TRUE
    /\ lastPass = NoPass
    /\ nextId = 0
    /\ ticks = 0
    /\ saves = 0
    /\ passes = 0
    /\ currentPeriod = "monthly"
    /\ selectedCurrency = "USD"
    /\ budgets = <<>>
    /\ budgetAlertPercentage = 75
    /\ rendered = Null
    /\ converter = ConverterMounted(selectedCurrency)
    /\ currentView = "dashboard"
    /\ editingTransaction = Null
    /\ userCategoryOverrides = <<>>
    /\ form = Null
    /\ calls = <<>>
    /\ insights = NoInsights
    /\ lastCall = Null
    /\ lastSubmit = Null
    /\ budgetManager = Null
    /\ transactionList = Null
    /\ localStorage = Mirror(transactions, recurringTransactions, budgets,
                             userCategoryOverrides, selectedCurrency, budgetAlertPercentage)
    /\ startup = Ready

Next ==
    \/ ReconcileEffect
    \/ \E f \in Frequencies, d \in {in[2] : in \in RuleInputs} \cup EditDates :
           SaveRecurringTransaction(f, d, 50)
    \/ \E i \in DOMAIN recurringTransactions : handleEditRecurringTransaction(i)
    \/ Tick

Spec == Init /\ [][Next]_vars

-----------------------------------------------------------------------------
(* SummaryDashboard: calculateSummary, getPeriodTransactions and           *)
(* getBudgetAlerts, computed on every render.                              *)

\* A summary that takes every transaction, whatever its currency.
AllTxs(txs, currencyCode) == txs

\* txs.filter(tx => tx.currencyCode === currencyCode)
RelevantTxs(txs, currencyCode) ==
    SelectSeq(txs, LAMBDA tx : tx.currencyCode = currencyCode)

\* A Map is the sequence of its entries in insertion order.
\* categoryMap.get(category) || 0
MapGet(categoryMap, category) ==
    LET hits == {i \in DOMAIN categoryMap : categoryMap[i].category = category}
    IN  IF hits = {} THEN 0 ELSE categoryMap[CHOOSE i \in hits : TRUE].amount

\* A map that appends an entry on every set.
MapSetAppend(categoryMap, category, amount) ==
    Append(categoryMap, [category |-> category, amount |-> amount])

\* categoryMap.set(category, amount): an existing key keeps its position.
MapSet(categoryMap, category, amount) ==
    IF \E i \in DOMAIN categoryMap : categoryMap[i].category = category
    THEN [i \in DOMAIN categoryMap |->
             IF categoryMap[i].category = category
             THEN [category |-> category, amount |-> amount]
             ELSE categoryMap[i]]
    ELSE Append(categoryMap, [category |-> category, amount |-> amount])

\* The body of relevantTxs.forEach.
SummaryStep(acc, tx) ==
    [totalIncome  |-> IF tx.type = "income"
                      THEN acc.totalIncome + tx.amount ELSE acc.totalIncome,
     totalExpense |-> IF tx.type = "income"
                      THEN acc.totalExpense ELSE acc.totalExpense + tx.amount,
     categoryMap  |-> MapSet(acc.categoryMap, tx.category,
                             MapGet(acc.categoryMap, tx.category) + tx.amount)]

RECURSIVE SummaryFold(_, _, _)
SummaryFold(relevantTxs, i, acc) ==
    IF i > Len(relevantTxs) THEN acc
    ELSE SummaryFold(relevantTxs, i + 1, SummaryStep(acc, relevantTxs[i]))

\* The SummaryData returned for the totals and the map of the loop.
SummaryData(acc) ==
    [totalIncome       |-> acc.totalIncome,
     totalExpense      |-> acc.totalExpense,
     netSavings        |-> acc.totalIncome - acc.totalExpense,
     categoryBreakdown |-> acc.categoryMap]

calculateSummary(txs, currencyCode) ==
    SummaryData(SummaryFold(RelevantTxs(txs, currencyCode), 1,
                            [totalIncome |-> 0, totalExpense |-> 0, categoryMap |-> <<>>]))

\* now.toISOString().split('T')[0]
Today == ToISODate(now)

\* startOfWeek: now moved back to Sunday, at local midnight.
StartOfWeek == SetHoursZero(SetDate(now, GetDate(now) - GetDay(now)))

\* startOfMonth: new Date(year, month, 1) is local midnight of the first.
StartOfMonth == SetHoursZero(MakeDay(GetFullYear(now), GetMonth(now), 1) * 24 - tz)

\* The callback of transactions.filter.
InPeriod(tx, period, today, startOfWeek, startOfMonth) ==
    CASE period = "daily"   -> tx.date = today
      [] period = "weekly"  -> SetHoursZero(ParseDate(tx.date)) >= startOfWeek
      [] period = "monthly" -> SetHoursZero(ParseDate(tx.date)) >= startOfMonth
      [] OTHER              -> FALSE

\* The filter with the three dates computed before it.
FilterPeriod(txs, period, today, startOfWeek, startOfMonth) ==
    SelectSeq(txs, LAMBDA tx : InPeriod(tx, period, today, startOfWeek, startOfMonth))

getPeriodTransactions(txs, period) ==
    FilterPeriod(txs, period, Today, StartOfWeek, StartOfMonth)

\* spent: the breakdown entries of the category, summed.
RECURSIVE SpentFrom(_, _, _, _)
SpentFrom(categoryBreakdown, category, i, sum) ==
    IF i > Len(categoryBreakdown) THEN sum
    ELSE SpentFrom(categoryBreakdown, category, i + 1,
                   IF categoryBreakdown[i].category = category
                   THEN sum + categoryBreakdown[i].amount ELSE sum)

\* (spent / budget.amount) * 100 for a positive amount.  The budget amounts of
\* the model divide spent * 100, and the floating-point result is that quotient.
Percentage(spent, amount) == (spent * 100) \div amount

\* A comparison that leaves out the threshold itself.
ExceedsThreshold(percentage, threshold) == percentage > threshold

\* percentage >= budgetAlertPercentage
ReachesThreshold(percentage, threshold) == percentage >= threshold

\* The body of currentBudgets.forEach: the alerts one budget pushes, alertPercentage
\* being the prop budgetAlertPercentage of the render.  A budget of amount 0 gives
\* Infinity or NaN as percentage and fails the first test.
BudgetAlert(budget, spent, alertPercentage) ==
    IF budget.amount > 0
       /\ ReachesThreshold(Percentage(spent, budget.amount), alertPercentage)
    THEN <<[category   |-> budget.category,
            spent      |-> spent,
            budget     |-> budget.amount,
            percentage |-> Percentage(spent, budget.amount)]>>
    ELSE <<>>

RECURSIVE AlertsFrom(_, _, _, _, _)
AlertsFrom(currentSummary, currentBudgets, alertPercentage, i, alerts) ==
    IF i > Len(currentBudgets) THEN alerts
    ELSE AlertsFrom(currentSummary, currentBudgets, alertPercentage, i + 1,
                    alerts \o BudgetAlert(currentBudgets[i],
                                          SpentFrom(currentSummary.categoryBreakdown,
                                                    currentBudgets[i].category, 1, 0),
                                          alertPercentage))

getBudgetAlerts(currentSummary, currentBudgets, currencyCode, alertPercentage) ==
    AlertsFrom(currentSummary, currentBudgets, alertPercentage, 1, <<>>)

\* One render of the component with the props and the period it is given.
SummaryDashboard(txs, bs, currency, alertPercentage, period) ==
    LET transactionsForPeriod == getPeriodTransactions(txs, period)
        summary == calculateSummary(transactionsForPeriod, currency)
    IN  [transactionsForPeriod |-> transactionsForPeriod,
         summary               |-> summary,
         budgetAlerts          |-> getBudgetAlerts(summary, bs, currency, alertPercentage)]

\* What the stored data the dashboard is opened on holds.
TxPool ==
    {[description |-> "lunch",  amount |-> 74, type |-> "expense", date |-> <<2024, 3, 2>>,
      category |-> "Food",   notes |-> "", currencyCode |-> "USD"],
     [description |-> "coffee", amount |-> 6,  type |-> "expense", date |-> <<2024, 3, 1>>,
      category |-> "Food",   notes |-> "", currencyCode |-> "USD"],
     [description |-> "refund", amount |-> 6,  type |-> "income",  date |-> <<2024, 3, 3>>,
      category |-> "Food",   notes |-> "", currencyCode |-> "USD"],
     [description |-> "gift",   amount |-> 20, type |-> "income",  date |-> <<2024, 2, 25>>,
      category |-> "Others", notes |-> "", currencyCode |-> "USD"],
     [description |-> "hotel",  amount |-> 74, type |-> "expense", date |-> <<2024, 2, 29>>,
      category |-> "Others", notes |-> "", currencyCode |-> "EUR"]}

\* The transaction the form saved n-th for the entries e.
StoredTx(e, n) ==
    [id |-> StampId(n), description |-> e.description, amount |-> e.amount,
     type |-> e.type, date |-> e.date, category |-> e.category, notes |-> e.notes,
     currencyCode |-> e.currencyCode]

StoredTransactions ==
    {[i \in DOMAIN f |-> StoredTx(f[i], i)] : f \in UNION {[1..k -> TxPool] : k \in 0..MaxTxs}}

StoredBudgets ==
    {<<>>,
     <<[category |-> "Others", amount |-> 0], [category |-> "Food", amount |-> 100]>>,
     <<[category |-> "Food", amount |-> 50], [category |-> "Others", amount |-> 100]>>}

\* The moments the dashboard is opened at: a Saturday at noon UTC, the same day at
\* 23:00 UTC, and the Sunday after it at noon.
DashboardTimes == {OpenedAt, OpenedAt + 11, OpenedAt + 24}

Periods == {"daily", "weekly", "monthly"}

Currencies == {"USD", "EUR"}

\* Positions of the threshold slider.
AlertPercentages == {75, 80}

setCurrentPeriod(period) ==
    /\ currentPeriod' = period
    /\ rendered' = SummaryDashboard(transactions, budgets, selectedCurrency,
                                    budgetAlertPercentage, period)
    /\ UNCHANGED <<now, tz, selectedCurrency, budgets, budgetAlertPercentage>>
    /\ UNCHANGED appVars
    /\ UNCHANGED extVars
    /\ PersistEffects
    /\ TransactionListRenders

setSelectedCurrency(code) ==
    /\ selectedCurrency' = code
    /\ rendered' = SummaryDashboard(transactions, budgets, code,
                                    budgetAlertPercentage, currentPeriod)
    /\ UNCHANGED <<now, tz, currentPeriod, budgets, budgetAlertPercentage>>
    /\ UNCHANGED appVars
    /\ UNCHANGED extVars
    /\ PersistEffects
    /\ TransactionListRenders

onBudgetAlertPercentageChange(percentage) ==
    /\ budgetAlertPercentage' = percentage
    /\ rendered' = SummaryDashboard(transactions, budgets, selectedCurrency,
                                    percentage, currentPeriod)
    /\ UNCHANGED <<now, tz, currentPeriod, selectedCurrency, budgets>>
    /\ UNCHANGED appVars
    /\ UNCHANGED extVars
    /\ PersistEffects
    /\ TransactionListRenders

\* The dashboard opened on stored data: no recurring rule, the first render done.
InitDashboard ==
    /\ now \in DashboardTimes
    /\ tz \in TimeZones
    /\ transactions \in StoredTransactions
    /\ recurringTransactions = <<>>
    /\ editingRecurringTransaction = Null
    /\ effectPending = FALSE
    /\ lastPass = NoPass
    /\ nextId = Len(transactions)
    /\ ticks = 0
    /\ saves = 0
    /\ passes = 0
    /\ currentPeriod = "monthly"
    /\ selectedCurrency = "USD"
    /\ budgets \in StoredBudgets
    /\ budgetAlertPercentage = 75
    /\ rendered = SummaryDashboard(transactions, budgets, selectedCurrency,
                                   budgetAlertPercentage, currentPeriod)
    /\ converter = ConverterMounted(selectedCurrency)
    /\ currentView = "dashboard"
    /\ editingTransaction = Null
    /\ userCategoryOverrides = <<>>
    /\ form = Null
    /\ calls = <<>>
    /\ insights = NoInsights
    /\ lastCall = Null
    /\ lastSubmit = Null
    /\ budgetManager = Null
    /\ transactionList = Null
    /\ localStorage = Mirror(transactions, recurringTransactions, budgets,
                             userCategoryOverrides, selectedCurrency, budgetAlertPercentage)
    /\ startup = Ready

NextDashboard ==
    \/ \E period \in Periods : setCurrentPeriod(period)
    \/ \E code \in Currencies : setSelectedCurrency(code)
    \/ \E percentage \in AlertPercentages : onBudgetAlertPercentageChange(percentage)

SpecDashboard == InitDashboard /\ [][NextDashboard]_vars

-----------------------------------------------------------------------------
(* CurrencyConverter: the field handlers, handleConvert and its timer.      *)

RECURSIVE GCD(_, _)
GCD(a, b) == IF b = 0 THEN a ELSE GCD(b, a % b)

\* The fraction num / den in lowest terms.
Fraction(num, den) == [num |-> num \div GCD(num, den), den |-> den \div GCD(num, den)]

\* A conversion with the two rates exchanged.
ConvertAmountInverse(amountValue, fromRate, toRate) ==
    Fraction(amountValue * fromRate, toRate)

\* (amountValue / fromRate) * toRate
ConvertAmount(amountValue, fromRate, toRate) ==
    Fraction(amountValue * toRate, fromRate)

\* The amounts typed into the field.
ConverterAmounts == {<<>>, <<0>>, <<45>>, <<100>>}

setFromAmount(text) ==
    /\ converter' = [converter EXCEPT !.fromAmount = text,
                                      !.convertedAmount = Null,
                                      !.error = Null]
    /\ UNCHANGED <<now, tz>>
    /\ UNCHANGED appVars
    /\ UNCHANGED dashVars
    /\ UNCHANGED formVars
    /\ PersistEffects
    /\ TransactionListRenders

setFromCurrency(code) ==
    /\ converter' = [converter EXCEPT !.fromCurrency = code,
                                      !.convertedAmount = Null,
                                      !.error = Null]
    /\ UNCHANGED <<now, tz>>
    /\ UNCHANGED appVars
    /\ UNCHANGED dashVars
    /\ UNCHANGED formVars
    /\ PersistEffects
    /\ TransactionListRenders

setToCurrency(code) ==
    /\ converter' = [converter EXCEPT !.toCurrency = code,
                                      !.convertedAmount = Null,
                                      !.error = Null]
    /\ UNCHANGED <<now, tz>>
    /\ UNCHANGED appVars
    /\ UNCHANGED dashVars
    /\ UNCHANGED formVars
    /\ PersistEffects
    /\ TransactionListRenders

\* The Convert button is enabled.
ConvertEnabled ==
    /\ ~converter.isLoading
    /\ converter.fromAmount # <<>>
    /\ converter.fromAmount[1] > 0

\* A click on Convert.  request keeps the inputs of the click.
handleConvert ==
    /\ ConvertEnabled
    /\ converter' =
           LET cleared == [converter EXCEPT !.error = Null, !.convertedAmount = Null,
                                            !.request = [amount |-> converter.fromAmount,
                                                         from   |-> converter.fromCurrency,
                                                         to     |-> converter.toCurrency]]
           IN  IF converter.fromAmount = <<>> \/ converter.fromAmount[1] <= 0
               THEN [cleared EXCEPT !.error = "Please enter a positive amount to convert."]
               ELSE IF converter.fromCurrency = converter.toCurrency
               THEN [cleared EXCEPT !.convertedAmount = Fraction(converter.fromAmount[1], 1)]
               ELSE IF converter.fromCurrency \notin DOMAIN hardcodedExchangeRates
                       \/ converter.toCurrency \notin DOMAIN hardcodedExchangeRates
               THEN [cleared EXCEPT !.error = "Conversion rate not available"]
               ELSE [cleared EXCEPT
                        !.isLoading = TRUE,
                        !.timer = [amountValue |-> converter.fromAmount[1],
                                   fromRate    |-> hardcodedExchangeRates[converter.fromCurrency],
                                   toRate      |-> hardcodedExchangeRates[converter.toCurrency]]]
    /\ UNCHANGED <<now, tz>>
    /\ UNCHANGED appVars
    /\ UNCHANGED dashVars
    /\ UNCHANGED formVars
    /\ PersistEffects
    /\ TransactionListRenders

\* The callback of setTimeout, 500 ms after the click.
ConversionTimeout ==
    /\ converter.timer # Null
    /\ converter' = [converter EXCEPT
                        !.convertedAmount = ConvertAmount(converter.timer.amountValue,
                                                          converter.timer.fromRate,
                                                          converter.timer.toRate),
                        !.isLoading = FALSE,
                        !.timer = Null]
    /\ UNCHANGED <<now, tz>>
    /\ UNCHANGED appVars
    /\ UNCHANGED dashVars
    /\ UNCHANGED formVars
    /\ PersistEffects
    /\ TransactionListRenders

NextConverter ==
    \/ \E text \in ConverterAmounts : setFromAmount(text)
    \/ \E code \in {CURRENCY_OPTIONS[i] : i \in DOMAIN CURRENCY_OPTIONS} : setFromCurrency(code)
    \/ \E code \in {CURRENCY_OPTIONS[i] : i \in DOMAIN CURRENCY_OPTIONS} : setToCurrency(code)
    \/ handleConvert
    \/ ConversionTimeout

SpecConverter == Init /\ [][NextConverter]_vars

-----------------------------------------------------------------------------
(* geminiService: categorizeTransaction and getSpendingInsights.  What the  *)
(* remote side does is the outcome of a call; a promise settles as          *)
(* [state, value].                                                          *)

\* The texts a response carries; Undefined is a response without text.
ResponseTexts ==
    {Undefined, "not json", "{}", "{\"category\":\"Food\"}", "{\"category\":\"Groceries\"}"}

RemoteOutcomes ==
    {[kind |-> k, text |-> Undefined] : k \in {"noApiKey", "networkError", "rejected"}}
        \cup {[kind |-> "response", text |-> t] : t \in ResponseTexts}

Thrown == [throws |-> TRUE, value |-> Undefined]

Returned(v) == [throws |-> FALSE, value |-> v]

\* JSON.parse on the texts of the model; the empty object is the empty function.
JSONParse(text) ==
    CASE text = "{}"                           -> [throws |-> FALSE, object |-> <<>>]
      [] text = "{\"category\":\"Food\"}"      -> [throws |-> FALSE, object |-> [category |-> "Food"]]
      [] text = "{\"category\":\"Groceries\"}" -> [throws |-> FALSE, object |-> [category |-> "Groceries"]]
      [] OTHER                                 -> [throws |-> TRUE, object |-> <<>>]

\* result.category || 'Others'
CategoryOf(object) ==
    IF "category" \in DOMAIN object /\ Truthy(object.category)
    THEN object.category ELSE "Others"

\* The try block of categorizeTransaction: getGeminiClient throws without a key,
\* the awaited request throws on a network error or a rejection, trim throws on a
\* response without text, JSON.parse throws on a text that is not JSON.
CategorizeAttempt(outcome) ==
    IF outcome.kind # "response" \/ outcome.text = Undefined THEN Thrown
    ELSE IF JSONParse(outcome.text).throws THEN Thrown
    ELSE Returned(CategoryOf(JSONParse(outcome.text).object))

\* The try block of getSpendingInsights: response.text is returned as it is.
InsightsAttempt(outcome) ==
    IF outcome.kind # "response" THEN Thrown ELSE Returned(outcome.text)

\* An async function without the catch: what is thrown rejects the promise.
Propagate(attempt, fallback) ==
    IF attempt.throws THEN [state |-> "rejected", value |-> Undefined]
    ELSE [state |-> "fulfilled", value |-> attempt.value]

\* try { ... } catch { return fallback } in an async function.
TryCatch(attempt, fallback) ==
    IF attempt.throws THEN [state |-> "fulfilled", value |-> fallback]
    ELSE [state |-> "fulfilled", value |-> attempt.value]

InsightsFallback ==
    "Could not retrieve spending insights at this time. Please try again later."

categorizeTransaction(description, outcome) ==
    TryCatch(CategorizeAttempt(outcome), "Others")

getSpendingInsights(summary, currentBudgets, currencyCode, outcome) ==
    TryCatch(InsightsAttempt(outcome), InsightsFallback)

-----------------------------------------------------------------------------
(* The form handlers, the App handlers they call and the navigation.        *)

\* The names categorizeTransaction may return.
AllowedCategories == {DEFAULT_CATEGORIES[i] : i \in DOMAIN DEFAULT_CATEGORIES} \cup {"Others"}

\* A lookup that compares the descriptions as they are written.
FindOverrideExact(overrides, description) ==
    LET hits == {i \in DOMAIN overrides : overrides[i].description = description}
    IN  IF hits = {} THEN 0 ELSE CHOOSE i \in hits : \A j \in hits : i <= j

\* userCategoryOverrides.find by lower-cased description: the position, 0 for none.
FindOverride(overrides, description) ==
    LET hits == {i \in DOMAIN overrides :
                    ToLowerCase(overrides[i].description) = ToLowerCase(description)}
    IN  IF hits = {} THEN 0 ELSE CHOOSE i \in hits : \A j \in hits : i <= j

\* An override list that appends on every confirmed save.
AppendOverride(overrides, description, category) ==
    Append(overrides, [description |-> description, category |-> category])

\* The updater of setUserCategoryOverrides.
PutOverride(overrides, description, category) ==
    IF FindOverride(overrides, description) # 0
    THEN [overrides EXCEPT ![FindOverride(overrides, description)] =
             [description |-> description, category |-> category]]
    ELSE Append(overrides, [description |-> description, category |-> category])

\* A handler that records an override on every save with a suggestion.
OverrideAlways(overrideConfirmed, aiSuggestedCategory, category) ==
    Truthy(aiSuggestedCategory)

\* overrideConfirmed && aiSuggestedCategory && category !== aiSuggestedCategory
OverrideRecorded(overrideConfirmed, aiSuggestedCategory, category) ==
    overrideConfirmed /\ Truthy(aiSuggestedCategory) /\ category # aiSuggestedCategory

OverridesAfterSave(overrides, record, aiSuggestedCategory, overrideConfirmed) ==
    IF OverrideRecorded(overrideConfirmed, aiSuggestedCategory, record.category)
    THEN PutOverride(overrides, record.description, record.category)
    ELSE overrides

\* A replacement that puts the saved record in every position.
ReplaceAll(list, record) == [i \in DOMAIN list |-> record]

\* prev.map(x => x.id === record.id ? record : x)
ReplaceById(list, record) ==
    [i \in DOMAIN list |-> IF list[i].id = record.id THEN record ELSE list[i]]

\* A form that checks the amount and the date and not the description.
DescriptionUnchecked(f) ==
    IF f.amount = <<>> \/ f.amount[1] <= 0
    THEN [message |-> "Amount must be a positive number."]
    ELSE IF f.date = <<>> THEN [message |-> "Date is required."]
    ELSE Null

\* The checks of handleSubmit: the error set, Null when all pass.
ValidationError(f) ==
    IF Trim(f.description) = "" THEN [message |-> "Description is required."]
    ELSE IF f.amount = <<>> \/ f.amount[1] <= 0
         THEN [message |-> "Amount must be a positive number."]
    ELSE IF f.date = <<>>
         THEN [message |-> IF f.kind = "recurring" THEN "Start Date is required."
                           ELSE "Date is required."]
    ELSE Null

\* transactionToSave of TransactionForm.
TransactionToSave(f) ==
    [id           |-> IF f.initialData # Null THEN f.initialData.id ELSE StampId(nextId),
     description  |-> Trim(f.description),
     amount       |-> f.amount[1],
     type         |-> "expense",
     date         |-> f.date,
     category     |-> f.category,
     notes        |-> "",
     currencyCode |-> selectedCurrency]

\* recurringTransactionToSave of RecurringTransactionForm.
RecurringTransactionToSave(f) ==
    [id                 |-> IF f.initialData # Null THEN f.initialData.id ELSE nextId,
     description        |-> Trim(f.description),
     amount             |-> f.amount[1],
     type               |-> "expense",
     category           |-> f.category,
     frequency          |-> IF f.initialData # Null THEN f.initialData.frequency ELSE "monthly",
     startDate          |-> f.date,
     nextOccurrenceDate |-> IF f.initialData # Null THEN f.initialData.nextOccurrenceDate
                            ELSE f.date,
     notes              |-> "",
     currencyCode       |-> selectedCurrency]

\* shouldRecordOverride; undefined counts as false, only its truth is read.
ShouldRecordOverride(f) ==
    IF Truthy(f.aiSuggestedCategory) /\ f.category # f.aiSuggestedCategory
    THEN f.isCategoryOverrideConfirmed ELSE FALSE

\* What a step that is no submit and settles no call leaves in the two records.
NoEvent ==
    /\ lastCall' = Null
    /\ lastSubmit' = Null

\* BudgetManager as it is mounted.
BudgetManagerMounted ==
    [selectedCategory |-> DEFAULT_CATEGORIES[1],
     amount           |-> <<>>,
     editingBudget    |-> Null,
     error            |-> Null]

\* A navigation button, or onAddNew of the rule list.
OpenView(view) ==
    /\ view # currentView
    /\ view \in {"addTransaction", "addRecurringTransaction"} => saves < MaxFormSaves
    /\ view = "addRecurringTransaction" => currentView = "viewRecurringTransactions"
    /\ currentView' = view
    /\ form' = CASE view = "addTransaction" -> MountForm("transaction", editingTransaction)
                 [] view = "addRecurringTransaction" ->
                        MountForm("recurring", editingRecurringTransaction)
                 [] OTHER -> Null
    /\ calls' = <<>>
    /\ insights' = NoInsights
    /\ budgetManager' = IF view = "manageBudgets" THEN BudgetManagerMounted ELSE Null
    /\ NoEvent
    /\ UNCHANGED <<now, tz, converter, editingTransaction, userCategoryOverrides>>
    /\ UNCHANGED appVars
    /\ UNCHANGED dashVars
    /\ PersistEffects
    /\ TransactionListRenders

handleEditTransaction(i) ==
    /\ i \in DOMAIN transactions
    /\ currentView = "viewTransactions"
    /\ saves < MaxFormSaves
    /\ editingTransaction' = transactions[i]
    /\ currentView' = "addTransaction"
    /\ form' = MountForm("transaction", transactions[i])
    /\ calls' = <<>>
    /\ lastCall' = Null
    /\ lastSubmit' = [onEdit |-> transactions[i]]
    /\ UNCHANGED <<now, tz, converter, userCategoryOverrides, insights, budgetManager>>
    /\ UNCHANGED appVars
    /\ UNCHANGED dashVars
    /\ PersistEffects
    /\ TransactionListRenders

handleCancelForm ==
    /\ form # Null \/ budgetManager # Null
    /\ editingTransaction' = Null
    /\ editingRecurringTransaction' = Null
    /\ currentView' = "dashboard"
    /\ form' = Null
    /\ calls' = <<>>
    /\ budgetManager' = Null
    /\ NoEvent
    /\ UNCHANGED <<now, tz, converter, userCategoryOverrides, insights>>
    /\ UNCHANGED <<transactions, recurringTransactions, effectPending, lastPass, nextId,
                   ticks, saves, passes>>
    /\ UNCHANGED dashVars
    /\ PersistEffects
    /\ TransactionListRenders

\* The form changes and nothing else does.
FormBecomes(f) ==
    /\ form' = RunPromptEffect(form, f)
    /\ UNCHANGED <<now, tz, converter, currentView, editingTransaction,
                   userCategoryOverrides, insights, budgetManager>>
    /\ UNCHANGED appVars
    /\ UNCHANGED dashVars

handleDescriptionChange(newDescription) ==
    /\ form # Null
    /\ LET typed == [form EXCEPT !.description = newDescription,
                                 !.error = Null,
                                 !.isCategoryOverrideConfirmed = FALSE]
           hit   == FindOverride(userCategoryOverrides, newDescription)
       IN  IF form.initialData = Null /\ TrimLength(newDescription) > 3
           THEN IF hit # 0
                THEN /\ FormBecomes([typed EXCEPT
                            !.category = userCategoryOverrides[hit].category,
                            !.aiSuggestedCategory = userCategoryOverrides[hit].category])
                     /\ calls' = calls
                ELSE /\ Len(calls) < MaxCalls
                     /\ FormBecomes([typed EXCEPT !.isLoadingCategory = TRUE])
                     /\ calls' = Append(calls, newDescription)
           ELSE IF form.initialData = Null
                THEN /\ FormBecomes([typed EXCEPT !.category = "Others",
                                                  !.aiSuggestedCategory = Undefined])
                     /\ calls' = calls
                ELSE /\ FormBecomes(typed)
                     /\ calls' = calls
    /\ NoEvent
    /\ PersistEffects
    /\ TransactionListRenders

\* The awaited categorizeTransaction call i settles and handleDescriptionChange
\* goes on behind its await.
CategorizeSettles(i, outcome) ==
    /\ form # Null
    /\ i \in DOMAIN calls
    /\ \E settled \in {categorizeTransaction(calls[i], outcome)} :
           /\ FormBecomes(IF settled.state = "fulfilled"
                          THEN [form EXCEPT !.category = settled.value,
                                            !.aiSuggestedCategory = settled.value,
                                            !.isLoadingCategory = FALSE]
                          ELSE [form EXCEPT !.category = "Others",
                                            !.aiSuggestedCategory = "Others",
                                            !.isLoadingCategory = FALSE])
           /\ lastCall' = [function    |-> "categorizeTransaction",
                           description |-> calls[i],
                           outcome     |-> outcome,
                           settled     |-> settled]
    /\ calls' = SubSeq(calls, 1, i - 1) \o SubSeq(calls, i + 1, Len(calls))
    /\ lastSubmit' = Null
    /\ PersistEffects
    /\ TransactionListRenders

\* The category select, disabled while isLoadingCategory.
handleCategoryChange(category) ==
    /\ form # Null
    /\ ~form.isLoadingCategory
    /\ FormBecomes([form EXCEPT !.category = category,
                                !.isCategoryOverrideConfirmed = FALSE])
    /\ calls' = calls
    /\ NoEvent
    /\ PersistEffects
    /\ TransactionListRenders

\* The amount field and the date field.
setAmount(text) ==
    /\ form # Null
    /\ FormBecomes([form EXCEPT !.amount = text])
    /\ calls' = calls
    /\ NoEvent
    /\ PersistEffects
    /\ TransactionListRenders

setDate(date) ==
    /\ form # Null
    /\ FormBecomes([form EXCEPT !.date = date])
    /\ calls' = calls
    /\ NoEvent
    /\ PersistEffects
    /\ TransactionListRenders

\* Yes or No on the feedback prompt.
handleConfirmOverride(confirm) ==
    /\ form # Null
    /\ form.showCategoryFeedbackPrompt
    /\ FormBecomes([form EXCEPT !.isCategoryOverrideConfirmed = confirm,
                                !.showCategoryFeedbackPrompt = FALSE])
    /\ calls' = calls
    /\ NoEvent
    /\ PersistEffects
    /\ TransactionListRenders

\* What a submit leaves in lastSubmit.
SubmitRecord(error, record) ==
    [form                  |-> IF form # Null THEN form ELSE budgetManager,
     error                 |-> error,
     saved                 |-> record,
     transactions          |-> transactions,
     recurringTransactions |-> recurringTransactions,
     userCategoryOverrides |-> userCategoryOverrides,
     budgets               |-> budgets]

\* handleSaveTransaction, called by onSave of TransactionForm.
handleSaveTransaction(transaction, aiSuggestedCategory, overrideConfirmed) ==
    /\ transactions' = IF editingTransaction # Null
                       THEN ReplaceById(transactions, transaction)
                       ELSE Append(transactions, transaction)
    /\ userCategoryOverrides' = OverridesAfterSave(userCategoryOverrides, transaction,
                                                   aiSuggestedCategory, overrideConfirmed)
    /\ editingTransaction' = Null
    /\ currentView' = "viewTransactions"
    /\ UNCHANGED <<recurringTransactions, editingRecurringTransaction>>

\* handleSaveRecurringTransaction, called by onSave of RecurringTransactionForm.
handleSaveRecurringTransaction(rt, aiSuggestedCategory, overrideConfirmed) ==
    /\ recurringTransactions' = IF editingRecurringTransaction # Null
                                THEN ReplaceById(recurringTransactions, rt)
                                ELSE Append(recurringTransactions, rt)
    /\ userCategoryOverrides' = OverridesAfterSave(userCategoryOverrides, rt,
                                                   aiSuggestedCategory, overrideConfirmed)
    /\ editingRecurringTransaction' = Null
    /\ currentView' = "viewRecurringTransactions"
    /\ UNCHANGED <<transactions, editingTransaction>>

\* handleSubmit of the mounted form.  A save changes the view and unmounts the form.
handleSubmit ==
    /\ form # Null
    /\ IF ValidationError(form) # Null
       THEN /\ form' = [form EXCEPT !.error = ValidationError(form)]
            /\ lastSubmit' = SubmitRecord(ValidationError(form), Null)
            /\ UNCHANGED <<transactions, recurringTransactions, editingTransaction,
                           editingRecurringTransaction, userCategoryOverrides,
                           currentView, calls, nextId, saves, effectPending>>
       ELSE /\ saves < MaxFormSaves
            /\ IF form.kind = "transaction"
               THEN /\ handleSaveTransaction(TransactionToSave(form),
                                             form.aiSuggestedCategory,
                                             ShouldRecordOverride(form))
                    /\ lastSubmit' = SubmitRecord(Null, TransactionToSave(form))
               ELSE /\ handleSaveRecurringTransaction(RecurringTransactionToSave(form),
                                                      form.aiSuggestedCategory,
                                                      ShouldRecordOverride(form))
                    /\ lastSubmit' = SubmitRecord(Null, RecurringTransactionToSave(form))
            /\ form' = Null
            /\ calls' = <<>>
            /\ nextId' = IF form.initialData = Null THEN nextId + 1 ELSE nextId
            /\ saves' = saves + 1
            /\ effectPending' = TRUE
    /\ lastCall' = Null
    /\ UNCHANGED <<now, tz, converter, insights, lastPass, ticks, passes, budgetManager>>
    /\ UNCHANGED dashVars
    /\ PersistEffects
    /\ TransactionListRenders

\* fetchInsights of SummaryDashboard up to its await.
fetchInsights ==
    /\ currentView = "dashboard"
    /\ ~insights.isLoadingInsights
    /\ insights' = [insights |-> "", isLoadingInsights |-> TRUE, pending |-> TRUE]
    /\ NoEvent
    /\ UNCHANGED <<now, tz, converter, currentView, editingTransaction,
                   userCategoryOverrides, form, calls, budgetManager>>
    /\ UNCHANGED appVars
    /\ UNCHANGED dashVars
    /\ PersistEffects
    /\ TransactionListRenders

\* The awaited getSpendingInsights call settles and fetchInsights goes on.
InsightsSettle(outcome) ==
    /\ insights.pending
    /\ \E settled \in {getSpendingInsights(rendered, budgets, selectedCurrency, outcome)} :
           /\ insights' = [insights |-> IF settled.state = "fulfilled" THEN settled.value
                                        ELSE "Failed to load insights. Please try again.",
                           isLoadingInsights |-> FALSE,
                           pending |-> FALSE]
           /\ lastCall' = [function    |-> "getSpendingInsights",
                           description |-> "",
                           outcome     |-> outcome,
                           settled     |-> settled]
    /\ lastSubmit' = Null
    /\ UNCHANGED <<now, tz, converter, currentView, editingTransaction,
                   userCategoryOverrides, form, calls, budgetManager>>
    /\ UNCHANGED appVars
    /\ UNCHANGED dashVars
    /\ PersistEffects
    /\ TransactionListRenders

-----------------------------------------------------------------------------
(* BudgetManager and the budget handlers of App.                            *)

HasBudget(bs, category) == \E i \in DOMAIN bs : bs[i].category = category

\* The options of the category select.
availableCategories ==
    {DEFAULT_CATEGORIES[i] : i \in DOMAIN DEFAULT_CATEGORIES}
        \ {c \in {budgets[i].category : i \in DOMAIN budgets} :
              budgetManager.editingBudget = Null \/ c # budgetManager.editingBudget.category}

\* prevBudgets.filter(b => b.category !== category)
WithoutCategory(bs, category) ==
    SelectSeq(bs, LAMBDA b : b.category # category)

\* A budget list that grows on every save.
AppendBudget(bs, budget) == Append(bs, budget)

\* The updater of handleSaveBudget.
PutBudget(bs, budget) ==
    IF HasBudget(bs, budget.category)
    THEN [i \in DOMAIN bs |-> IF bs[i].category = budget.category THEN budget ELSE bs[i]]
    ELSE Append(bs, budget)

\* amount === '' || amount <= 0
BudgetAmountRejected(manager) ==
    manager.amount = <<>> \/ manager.amount[1] <= 0

\* What changes in the budget manager and the budget list; the rest stays.
BudgetsBecome(manager, bs) ==
    /\ budgetManager' = manager
    /\ budgets' = bs
    /\ UNCHANGED <<now, tz, converter, currentView, editingTransaction,
                   userCategoryOverrides, form, calls, insights>>
    /\ UNCHANGED <<transactions, recurringTransactions, editingRecurringTransaction,
                   effectPending, lastPass, nextId, ticks, passes>>
    /\ UNCHANGED <<currentPeriod, selectedCurrency, budgetAlertPercentage, rendered>>

\* The category select; it is disabled while a budget is edited.
setSelectedCategory(category) ==
    /\ budgetManager # Null
    /\ budgetManager.editingBudget = Null
    /\ category \in availableCategories
    /\ BudgetsBecome([budgetManager EXCEPT !.selectedCategory = category, !.error = Null],
                     budgets)
    /\ NoEvent
    /\ UNCHANGED saves
    /\ PersistEffects
    /\ TransactionListRenders

\* The amount field of the budget manager.
setBudgetAmount(text) ==
    /\ budgetManager # Null
    /\ BudgetsBecome([budgetManager EXCEPT !.amount = text, !.error = Null], budgets)
    /\ NoEvent
    /\ UNCHANGED saves
    /\ PersistEffects
    /\ TransactionListRenders

startEdit(i) ==
    /\ budgetManager # Null
    /\ i \in DOMAIN budgets
    /\ BudgetsBecome([budgetManager EXCEPT !.editingBudget = [category |-> budgets[i].category],
                                           !.selectedCategory = budgets[i].category,
                                           !.amount = <<budgets[i].amount>>],
                     budgets)
    /\ NoEvent
    /\ UNCHANGED saves
    /\ PersistEffects
    /\ TransactionListRenders

\* The Cancel Edit button.
cancelEdit ==
    /\ budgetManager # Null
    /\ budgetManager.editingBudget # Null
    /\ BudgetsBecome([budgetManager EXCEPT
                          !.editingBudget = Null,
                          !.selectedCategory =
                              IF \E i \in DOMAIN DEFAULT_CATEGORIES :
                                     DEFAULT_CATEGORIES[i] \in availableCategories
                              THEN DEFAULT_CATEGORIES[
                                       CHOOSE i \in DOMAIN DEFAULT_CATEGORIES :
                                           /\ DEFAULT_CATEGORIES[i] \in availableCategories
                                           /\ \A j \in 1..(i - 1) :
                                                  DEFAULT_CATEGORIES[j] \notin availableCategories]
                              ELSE DEFAULT_CATEGORIES[1],
                          !.amount = <<>>,
                          !.error = Null],
                     budgets)
    /\ NoEvent
    /\ UNCHANGED saves
    /\ PersistEffects
    /\ TransactionListRenders

\* handleSave of BudgetManager with handleSaveBudget of App behind onSaveBudget.
handleSave ==
    /\ budgetManager # Null
    /\ IF BudgetAmountRejected(budgetManager)
       THEN /\ BudgetsBecome([budgetManager EXCEPT !.error =
                                 [message |-> "Please enter a valid amount greater than zero."]],
                             budgets)
            /\ lastSubmit' = SubmitRecord(
                   [message |-> "Please enter a valid amount greater than zero."], Null)
            /\ UNCHANGED saves
       ELSE /\ saves < MaxFormSaves
            /\ \E newBudget \in {[category |-> budgetManager.selectedCategory,
                                  amount   |-> budgetManager.amount[1]]} :
                   /\ BudgetsBecome(BudgetManagerMounted, PutBudget(budgets, newBudget))
                   /\ lastSubmit' = SubmitRecord(Null, newBudget)
            /\ saves' = saves + 1
    /\ lastCall' = Null
    /\ PersistEffects
    /\ TransactionListRenders

handleDeleteBudget(category) ==
    /\ budgetManager # Null
    /\ HasBudget(budgets, category)
    /\ BudgetsBecome(budgetManager, WithoutCategory(budgets, category))
    /\ lastSubmit' = [deleted |-> category, budgets |-> budgets]
    /\ lastCall' = Null
    /\ UNCHANGED saves
    /\ PersistEffects
    /\ TransactionListRenders

\* The amounts entered in the budget manager.
BudgetAmounts == {<<>>, <<0>>, <<40>>}

Views ==
    {"dashboard", "addTransaction", "viewTransactions", "viewRecurringTransactions",
     "addRecurringTransaction", "manageBudgets"}

\* The amounts and the dates entered in the form.
FormAmounts == {<<0>>, <<25>>}

FormDates == {<<>>}

\* The categories the user selects.
FormCategories == {"Food", "Transport", "Others"}

NextForms ==
    \/ \E view \in Views : OpenView(view)
    \/ \E i \in DOMAIN transactions : handleEditTransaction(i)
    \/ \E i \in DOMAIN recurringTransactions :
           saves < MaxFormSaves /\ handleEditRecurringTransaction(i)
    \/ handleCancelForm
    \/ \E d \in Descriptions : handleDescriptionChange(d)
    \/ \E i \in DOMAIN calls, outcome \in RemoteOutcomes : CategorizeSettles(i, outcome)
    \/ \E c \in FormCategories : handleCategoryChange(c)
    \/ \E a \in FormAmounts : setAmount(a)
    \/ \E d \in FormDates : setDate(d)
    \/ \E confirm \in BOOLEAN : handleConfirmOverride(confirm)
    \/ handleSubmit
    \/ fetchInsights
    \/ \E outcome \in RemoteOutcomes : InsightsSettle(outcome)
    \/ \E c \in AllowedCategories : setSelectedCategory(c)
    \/ \E a \in BudgetAmounts : setBudgetAmount(a)
    \/ \E i \in DOMAIN budgets : startEdit(i)
    \/ cancelEdit
    \/ handleSave
    \/ \E c \in AllowedCategories : handleDeleteBudget(c)

\* What the application loads when it opens: nothing, or two transactions, a rule
\* and an override saved by earlier sessions.
StoredForms ==
    {[transactions |-> <<>>, recurringTransactions |-> <<>>, userCategoryOverrides |-> <<>>],
     [transactions |->
          <<[id |-> StampId(1), description |-> "Coffee", amount |-> 25, type |-> "expense",
             date |-> <<2024, 3, 1>>, category |-> "Transport", notes |-> "",
             currencyCode |-> "USD"],
            [id |-> StampId(2), description |-> "tea", amount |-> 25, type |-> "expense",
             date |-> <<2024, 3, 1>>, category |-> "Others", notes |-> "",
             currencyCode |-> "USD"]>>,
      recurringTransactions |->
          <<[id |-> 3, description |-> "tea", amount |-> 25, type |-> "expense",
             category |-> "Food", frequency |-> "monthly", startDate |-> <<2024, 3, 1>>,
             nextOccurrenceDate |-> <<2024, 4, 1>>, notes |-> "", currencyCode |-> "USD"]>>,
      userCategoryOverrides |-> <<[description |-> "Coffee", category |-> "Transport"]>>]}

\* The application opened in the UTC time zone on stored data, the reconciliation
\* of the opening done.
InitForms ==
    /\ now = OpenedAt
    /\ tz = 0
    /\ \E stored \in StoredForms :
           /\ transactions = stored.transactions
           /\ recurringTransactions = stored.recurringTransactions
           /\ userCategoryOverrides = stored.userCategoryOverrides
    /\ editingRecurringTransaction = Null
    /\ effectPending = FALSE
    /\ lastPass = NoPass
    /\ nextId = 4
    /\ ticks = 0
    /\ saves = 0
    /\ passes = 0
    /\ currentPeriod = "monthly"
    /\ selectedCurrency = "USD"
    /\ budgets = <<>>
    /\ budgetAlertPercentage = 75
    /\ rendered = Null
    /\ converter = ConverterMounted(selectedCurrency)
    /\ currentView = "dashboard"
    /\ editingTransaction = Null
    /\ form = Null
    /\ calls = <<>>
    /\ insights = NoInsights
    /\ lastCall = Null
    /\ lastSubmit = Null
    /\ budgetManager = Null
    /\ transactionList = Null
    /\ localStorage = Mirror(transactions, recurringTransactions, budgets,
                             userCategoryOverrides, selectedCurrency, budgetAlertPercentage)
    /\ startup = Ready

SpecForms == InitForms /\ [][NextForms]_vars

\* The budget lists earlier sessions left.
SavedBudgets ==
    {<<>>,
     <<[category |-> "Food", amount |-> 100]>>,
     <<[category |-> "Transport", amount |-> 50], [category |-> "Food", amount |-> 100]>>}

\* The application opened on saved budgets.
InitBudgets ==
    /\ now = OpenedAt
    /\ tz = 0
    /\ transactions = <<>>
    /\ recurringTransactions = <<>>
    /\ userCategoryOverrides = <<>>
    /\ editingRecurringTransaction = Null
    /\ effectPending = FALSE
    /\ lastPass = NoPass
    /\ nextId = 0
    /\ ticks = 0
    /\ saves = 0
    /\ passes = 0
    /\ currentPeriod = "monthly"
    /\ selectedCurrency = "USD"
    /\ budgets \in SavedBudgets
    /\ budgetAlertPercentage = 75
    /\ rendered = Null
    /\ converter = ConverterMounted(selectedCurrency)
    /\ currentView = "dashboard"
    /\ editingTransaction = Null
    /\ form = Null
    /\ calls = <<>>
    /\ insights = NoInsights
    /\ lastCall = Null
    /\ lastSubmit = Null
    /\ budgetManager = Null
    /\ transactionList = Null
    /\ localStorage = Mirror(transactions, recurringTransactions, budgets,
                             userCategoryOverrides, selectedCurrency, budgetAlertPercentage)
    /\ startup = Ready

NextBudgets ==
    \/ \E view \in {"dashboard", "manageBudgets"} : OpenView(view)
    \/ handleCancelForm
    \/ \E c \in AllowedCategories : setSelectedCategory(c)
    \/ \E a \in BudgetAmounts : setBudgetAmount(a)
    \/ \E i \in DOMAIN budgets : startEdit(i)
    \/ cancelEdit
    \/ handleSave
    \/ \E c \in AllowedCategories : handleDeleteBudget(c)

SpecBudgets == InitBudgets /\ [][NextBudgets]_vars

-----------------------------------------------------------------------------
(* The mount of App: the load effect and the first run of the write-through *)
(* effects, then the render of what was loaded; and the delete handlers.    *)

\* The state of App before anything is loaded.
InitialState ==
    [transactions          |-> <<>>,
     recurringTransactions |-> <<>>,
     budgets               |-> <<>>,
     userCategoryOverrides |-> <<>>,
     selectedCurrency      |-> "USD",
     budgetAlertPercentage |-> 75]

\* What earlier sessions left in local storage: nothing, a full store, and a store
\* with transactions and a currency code that is no option.
StoredStates ==
    {[smartExpenseTransactions          |-> Null,
      smartExpenseRecurringTransactions |-> Null,
      smartExpenseBudgets               |-> Null,
      smartExpenseCategoryOverrides     |-> Null,
      smartExpenseSelectedCurrency      |-> Null,
      smartExpenseBudgetAlertPercentage |-> Null],
     [smartExpenseTransactions |->
          Stringify(<<[id |-> StampId(1), description |-> "Coffee", amount |-> 25,
                       type |-> "expense", date |-> <<2024, 3, 1>>, category |-> "Food",
                       notes |-> "", currencyCode |-> "USD"]>>),
      smartExpenseRecurringTransactions |->
          Stringify(<<[id |-> 3, description |-> "rent", amount |-> 25, type |-> "expense",
                       category |-> "Housing", frequency |-> "monthly",
                       startDate |-> <<2024, 3, 1>>, nextOccurrenceDate |-> <<2024, 4, 1>>,
                       notes |-> "", currencyCode |-> "USD"]>>),
      smartExpenseBudgets           |-> Stringify(<<[category |-> "Food", amount |-> 100]>>),
      smartExpenseCategoryOverrides |->
          Stringify(<<[description |-> "Coffee", category |-> "Transport"]>>),
      smartExpenseSelectedCurrency      |-> Text("EUR"),
      smartExpenseBudgetAlertPercentage |-> Text(80)],
     [smartExpenseTransactions |->
          Stringify(<<[id |-> StampId(1), description |-> "Coffee", amount |-> 25,
                       type |-> "expense", date |-> <<2024, 3, 1>>, category |-> "Food",
                       notes |-> "", currencyCode |-> "USD"]>>),
      smartExpenseRecurringTransactions |-> Null,
      smartExpenseBudgets               |-> Null,
      smartExpenseCategoryOverrides     |-> Null,
      smartExpenseSelectedCurrency      |-> Text("ZZZ"),
      smartExpenseBudgetAlertPercentage |-> Null]}

\* if (stored) setX(JSON.parse(stored)): the state update the load effect queues
\* for a key, the initial value where it queues none.
Loaded(stored, initial) == IF stored # Null THEN stored.json ELSE initial

LoadedText(stored, initial) == IF stored # Null THEN stored.text ELSE initial

\* storedCurrency && CURRENCY_OPTIONS.some(c => c.code === storedCurrency)
LoadedCurrency(stored, initial) ==
    IF stored # Null /\ \E i \in DOMAIN CURRENCY_OPTIONS : CURRENCY_OPTIONS[i] = stored.text
    THEN stored.text ELSE initial

\* The state updates the load effect queues.
LoadEffect(store) ==
    [transactions          |-> Loaded(store.smartExpenseTransactions,
                                      InitialState.transactions),
     recurringTransactions |-> Loaded(store.smartExpenseRecurringTransactions,
                                      InitialState.recurringTransactions),
     budgets               |-> Loaded(store.smartExpenseBudgets, InitialState.budgets),
     userCategoryOverrides |-> Loaded(store.smartExpenseCategoryOverrides,
                                      InitialState.userCategoryOverrides),
     selectedCurrency      |-> LoadedCurrency(store.smartExpenseSelectedCurrency,
                                              InitialState.selectedCurrency),
     budgetAlertPercentage |-> LoadedText(store.smartExpenseBudgetAlertPercentage,
                                          InitialState.budgetAlertPercentage)]

\* The state changes nothing but the store and the mount.
OnlyStore ==
    /\ UNCHANGED <<now, tz, editingRecurringTransaction, lastPass, nextId, ticks, saves,
                   passes, currentPeriod, rendered>>
    /\ UNCHANGED <<converter, currentView, editingTransaction, form, calls, insights,
                   lastCall, lastSubmit, budgetManager, transactionList>>

\* The effects of the first commit, in the order App declares them: the load effect
\* queues its state updates, the six write-through effects store the state of the
\* first render, the reconciliation effect finds no rule.
MountEffects ==
    /\ startup.phase = "mounting"
    /\ localStorage' = Mirror(transactions, recurringTransactions, budgets,
                              userCategoryOverrides, selectedCurrency,
                              budgetAlertPercentage)
    /\ startup' = [phase  |-> "hydrating",
                   found  |-> localStorage,
                   queued |-> LoadEffect(localStorage)]
    /\ effectPending' = FALSE
    /\ UNCHANGED <<transactions, recurringTransactions, budgets, userCategoryOverrides,
                   selectedCurrency, budgetAlertPercentage>>
    /\ OnlyStore

\* The render of the queued updates and the effects whose dependency changed.
HydratedRender ==
    /\ startup.phase = "hydrating"
    /\ \E q \in {startup.queued} :
           /\ transactions' = q.transactions
           /\ recurringTransactions' = q.recurringTransactions
           /\ budgets' = q.budgets
           /\ userCategoryOverrides' = q.userCategoryOverrides
           /\ selectedCurrency' = q.selectedCurrency
           /\ budgetAlertPercentage' = q.budgetAlertPercentage
           /\ localStorage' =
                  [smartExpenseTransactions |->
                       IF q.transactions # transactions THEN Stringify(q.transactions)
                       ELSE localStorage.smartExpenseTransactions,
                   smartExpenseRecurringTransactions |->
                       IF q.recurringTransactions # recurringTransactions
                       THEN Stringify(q.recurringTransactions)
                       ELSE localStorage.smartExpenseRecurringTransactions,
                   smartExpenseBudgets |->
                       IF q.budgets # budgets THEN Stringify(q.budgets)
                       ELSE localStorage.smartExpenseBudgets,
                   smartExpenseCategoryOverrides |->
                       IF q.userCategoryOverrides # userCategoryOverrides
                       THEN Stringify(q.userCategoryOverrides)
                       ELSE localStorage.smartExpenseCategoryOverrides,
                   smartExpenseSelectedCurrency |->
                       IF q.selectedCurrency # selectedCurrency THEN Text(q.selectedCurrency)
                       ELSE localStorage.smartExpenseSelectedCurrency,
                   smartExpenseBudgetAlertPercentage |->
                       IF q.budgetAlertPercentage # budgetAlertPercentage
                       THEN Text(q.budgetAlertPercentage)
                       ELSE localStorage.smartExpenseBudgetAlertPercentage]
           /\ effectPending' = (q.transactions # transactions
                                   \/ q.recurringTransactions # recurringTransactions)
    /\ startup' = Ready
    /\ OnlyStore

\* The filter of handleDeleteTransaction with the test inverted.
DeleteOthers(prevTxs, idsToDelete) ==
    SelectSeq(prevTxs, LAMBDA tx : tx.id \in idsToDelete)

\* The updater of handleDeleteTransaction: prevTxs.filter(tx => !idsToDelete.has(tx.id)).
DeleteTransactions(prevTxs, idsToDelete) ==
    SelectSeq(prevTxs, LAMBDA tx : tx.id \notin idsToDelete)

\* handleDeleteTransaction with one id, from a row of the transaction list.
handleDeleteTransaction(id) ==
    /\ currentView = "viewTransactions"
    /\ HasId(transactions, id)
    /\ transactions' = DeleteTransactions(transactions, {id})
    /\ effectPending' = TRUE
    /\ lastPass' = NoPass
    /\ passes' = 0
    /\ lastCall' = Null
    /\ lastSubmit' = [onDelete |-> {id}]
    /\ UNCHANGED <<now, tz, recurringTransactions, editingRecurringTransaction, nextId,
                   ticks, saves>>
    /\ UNCHANGED dashVars
    /\ UNCHANGED <<converter, currentView, editingTransaction, userCategoryOverrides, form,
                   calls, insights, budgetManager>>
    /\ PersistEffects
    /\ TransactionListRenders

\* handleDeleteRecurringTransaction, from the rule list.
handleDeleteRecurringTransaction(id) ==
    /\ currentView = "viewRecurringTransactions"
    /\ \E i \in DOMAIN recurringTransactions : recurringTransactions[i].id = id
    /\ recurringTransactions' = SelectSeq(recurringTransactions, LAMBDA rt : rt.id # id)
    /\ effectPending' = TRUE
    /\ lastPass' = NoPass
    /\ passes' = 0
    /\ NoEvent
    /\ UNCHANGED <<now, tz, transactions, editingRecurringTransaction, nextId, ticks, saves>>
    /\ UNCHANGED dashVars
    /\ UNCHANGED <<converter, currentView, editingTransaction, userCategoryOverrides, form,
                   calls, insights, budgetManager>>
    /\ PersistEffects
    /\ TransactionListRenders

\* The rules saved while the store is followed.
StoredRuleInputs == {in \in RuleInputs : in[1] = "monthly"}

\* App as the browser mounts it on a store, in the UTC time zone.
InitStorage ==
    /\ now = OpenedAt
    /\ tz = 0
    /\ transactions = InitialState.transactions
    /\ recurringTransactions = InitialState.recurringTransactions
    /\ budgets = InitialState.budgets
    /\ userCategoryOverrides = InitialState.userCategoryOverrides
    /\ selectedCurrency = InitialState.selectedCurrency
    /\ budgetAlertPercentage = InitialState.budgetAlertPercentage
    /\ editingRecurringTransaction = Null
    /\ effectPending = TRUE
    /\ lastPass = NoPass
    /\ nextId = 4
    /\ ticks = 0
    /\ saves = 0
    /\ passes = 0
    /\ currentPeriod = "monthly"
    /\ rendered = Null
    /\ converter = ConverterMounted(selectedCurrency)
    /\ currentView = "dashboard"
    /\ editingTransaction = Null
    /\ form = Null
    /\ calls = <<>>
    /\ insights = NoInsights
    /\ lastCall = Null
    /\ lastSubmit = Null
    /\ budgetManager = Null
    /\ transactionList = Null
    /\ localStorage \in StoredStates
    /\ startup = [phase |-> "mounting"]

NextStorage ==
    \/ MountEffects
    \/ HydratedRender
    \/ ReconcileEffect
    \/ \E view \in {"viewTransactions", "viewRecurringTransactions"} : OpenView(view)
    \/ \E input \in StoredRuleInputs : SaveRecurringTransaction(input[1], input[2], 25)
    \/ \E i \in DOMAIN transactions : handleDeleteTransaction(transactions[i].id)
    \/ \E i \in DOMAIN recurringTransactions :
           handleDeleteRecurringTransaction(recurringTransactions[i].id)
    \/ \E code \in {"USD", "EUR"} : setSelectedCurrency(code)

SpecStorage == InitStorage /\ [][NextStorage]_vars

-----------------------------------------------------------------------------
(* TransactionList: filters, selection, bulk delete and export.             *)

\* date.setHours(23, 59, 59, 999), in the whole hours of the model: the last hour of
\* the local calendar day.
SetHoursEnd(t) == SetHoursZero(t) + 23

\* The callback of filteredTransactions.  A date that does not parse is NaN and no
\* comparison with it holds.
MatchesFilters(t, list) ==
    LET matchesType     == list.filterType = "all" \/ t.type = list.filterType
        matchesCurrency == list.filterCurrency = "ALL"
                               \/ t.currencyCode = list.filterCurrency
        beforeStart     == /\ list.startDate # <<>>
                           /\ t.date # <<>>
                           /\ ParseDate(t.date) < SetHoursZero(ParseDate(list.startDate))
        afterEnd        == /\ list.endDate # <<>>
                           /\ t.date # <<>>
                           /\ ParseDate(t.date) > SetHoursEnd(ParseDate(list.endDate))
    IN  matchesType /\ ~beforeStart /\ ~afterEnd /\ matchesCurrency

filteredTransactions(txs, list) == SelectSeq(txs, LAMBDA t : MatchesFilters(t, list))

\* sortedTransactions.map(t => t.id) as a set: the sort permutes the rows.
DisplayedIds(txs, list) ==
    {filteredTransactions(txs, list)[i].id : i \in DOMAIN filteredTransactions(txs, list)}

\* A state update of TransactionList alone; a changed filter or sort order gives new
\* sortedTransactions.
ListBecomes(list) ==
    /\ transactionList # Null
    /\ transactionList' =
           [list EXCEPT !.selectionEffectPending =
                @ \/ list.filterType # transactionList.filterType
                  \/ list.filterCurrency # transactionList.filterCurrency
                  \/ list.startDate # transactionList.startDate
                  \/ list.endDate # transactionList.endDate
                  \/ list.sortOrder # transactionList.sortOrder]
    /\ UNCHANGED <<now, tz, converter, currentView, editingTransaction,
                   userCategoryOverrides, form, calls, insights, budgetManager>>
    /\ UNCHANGED appVars
    /\ UNCHANGED dashVars
    /\ UNCHANGED storeVars

setFilterType(type) ==
    /\ transactionList # Null
    /\ type # transactionList.filterType
    /\ ListBecomes([transactionList EXCEPT !.filterType = type])
    /\ NoEvent

setFilterCurrency(code) ==
    /\ transactionList # Null
    /\ code # transactionList.filterCurrency
    /\ ListBecomes([transactionList EXCEPT !.filterCurrency = code])
    /\ NoEvent

setSortOrder ==
    /\ transactionList # Null
    /\ ListBecomes([transactionList EXCEPT
                        !.sortOrder = IF @ = "asc" THEN "desc" ELSE "asc"])
    /\ NoEvent

setStartDate(date) ==
    /\ transactionList # Null
    /\ date # transactionList.startDate
    /\ ListBecomes([transactionList EXCEPT !.startDate = date])
    /\ NoEvent

setEndDate(date) ==
    /\ transactionList # Null
    /\ date # transactionList.endDate
    /\ ListBecomes([transactionList EXCEPT !.endDate = date])
    /\ NoEvent

\* The 'Clear Filters' button, rendered while a filter or a selection is set.
ClearFilters ==
    /\ transactionList # Null
    /\ \/ transactionList.startDate # <<>>
       \/ transactionList.endDate # <<>>
       \/ transactionList.filterCurrency # "ALL"
       \/ transactionList.selectedTransactionIds # {}
    /\ ListBecomes([transactionList EXCEPT !.startDate = <<>>,
                                           !.endDate = <<>>,
                                           !.filterCurrency = "ALL",
                                           !.selectedTransactionIds = {}])
    /\ NoEvent

\* The checkbox of a displayed row: it reports the opposite of what it shows.
handleSelectTransaction(id, isChecked) ==
    /\ transactionList # Null
    /\ id \in DisplayedIds(transactions, transactionList)
    /\ isChecked = (id \notin transactionList.selectedTransactionIds)
    /\ ListBecomes([transactionList EXCEPT !.selectedTransactionIds =
                        IF isChecked THEN @ \cup {id} ELSE @ \ {id}])
    /\ NoEvent

\* sortedTransactions.length > 0 && selectedTransactionIds.size === sortedTransactions.length
isAllSelected(txs, list) ==
    /\ Len(filteredTransactions(txs, list)) > 0
    /\ Cardinality(list.selectedTransactionIds) = Len(filteredTransactions(txs, list))

\* The checkbox of the table head, rendered while rows are displayed.
handleSelectAllTransactions(isChecked) ==
    /\ transactionList # Null
    /\ DisplayedIds(transactions, transactionList) # {}
    /\ isChecked = ~isAllSelected(transactions, transactionList)
    /\ ListBecomes([transactionList EXCEPT !.selectedTransactionIds =
                        IF isChecked THEN DisplayedIds(transactions, transactionList)
                        ELSE {}])
    /\ NoEvent

\* handleBulkDelete; confirm is the answer to window.confirm.  onDelete is
\* handleDeleteTransaction with the array of the selected ids.
handleBulkDelete(confirm) ==
    /\ transactionList # Null
    /\ lastCall' = Null
    /\ IF transactionList.selectedTransactionIds = {} \/ ~confirm
       THEN /\ lastSubmit' = [bulkDelete |-> transactionList.selectedTransactionIds,
                              confirm    |-> confirm,
                              onDelete   |-> {}]
            /\ UNCHANGED <<transactions, effectPending, lastPass, passes, transactionList>>
       ELSE /\ lastSubmit' = [bulkDelete |-> transactionList.selectedTransactionIds,
                              confirm    |-> confirm,
                              onDelete   |-> transactionList.selectedTransactionIds]
            /\ transactions' = DeleteTransactions(transactions,
                                                  transactionList.selectedTransactionIds)
            /\ effectPending' = TRUE
            /\ lastPass' = NoPass
            /\ passes' = 0
            /\ transactionList' = [transactionList EXCEPT
                                       !.selectedTransactionIds = {},
                                       !.selectionEffectPending = TRUE]
    /\ UNCHANGED <<now, tz, recurringTransactions, editingRecurringTransaction, nextId,
                   ticks, saves>>
    /\ UNCHANGED dashVars
    /\ UNCHANGED <<converter, currentView, editingTransaction, userCategoryOverrides, form,
                   calls, insights, budgetManager>>
    /\ PersistEffects

\* transactionsToExport of exportToCsv and exportToPdf, as the set of its ids.
ExportedIds(txs, list) ==
    IF list.selectedTransactionIds # {}
    THEN DisplayedIds(txs, list) \cap list.selectedTransactionIds
    ELSE DisplayedIds(txs, list)

\* exportToCsv (exportToPdf differs in the file it writes).
exportToCsv ==
    /\ transactionList # Null
    /\ transactionList.selectedTransactionIds # {}
           \/ DisplayedIds(transactions, transactionList) # {}
    /\ IF ExportedIds(transactions, transactionList) = {}
       THEN /\ ListBecomes(transactionList)
            /\ lastSubmit' = [exported |-> {}]
       ELSE /\ ListBecomes([transactionList EXCEPT !.selectedTransactionIds = {}])
            /\ lastSubmit' = [exported |-> ExportedIds(transactions, transactionList)]
    /\ lastCall' = Null

\* An updater that keeps the selection as it is.
SelectionUntouched(prev, displayed) == prev

\* The updater of the selection effect:
\* Array.from(prev).filter(id => sortedTransactions.some(t => t.id === id)).
SelectionKept(prev, displayed) == prev \cap displayed

\* The selection effect: the selected ids that are no longer displayed are dropped.
SelectionEffect ==
    /\ transactionList # Null
    /\ transactionList.selectionEffectPending
    /\ ListBecomes([transactionList EXCEPT
                        !.selectedTransactionIds =
                            SelectionKept(@, DisplayedIds(transactions, transactionList)),
                        !.selectionEffectPending = FALSE])
    /\ NoEvent

\* The transactions earlier sessions left for the list.
ListedTransactions ==
    <<[id |-> StampId(1), description |-> "Coffee", amount |-> 25, type |-> "expense",
       date |-> <<2024, 3, 1>>, category |-> "Food", notes |-> "", currencyCode |-> "USD"],
      [id |-> StampId(2), description |-> "wages", amount |-> 40, type |-> "income",
       date |-> <<2024, 3, 2>>, category |-> "Others", notes |-> "",
       currencyCode |-> "USD"],
      [id |-> StampId(3), description |-> "hotel", amount |-> 74, type |-> "expense",
       date |-> <<2024, 2, 29>>, category |-> "Others", notes |-> "",
       currencyCode |-> "EUR"]>>

ListDates == {<<>>, <<2024, 3, 1>>}

\* The application opened on the listed transactions.
InitList ==
    /\ now = OpenedAt
    /\ tz \in TimeZones
    /\ transactions = ListedTransactions
    /\ recurringTransactions = <<>>
    /\ userCategoryOverrides = <<>>
    /\ editingRecurringTransaction = Null
    /\ effectPending = FALSE
    /\ lastPass = NoPass
    /\ nextId = 4
    /\ ticks = 0
    /\ saves = 0
    /\ passes = 0
    /\ currentPeriod = "monthly"
    /\ selectedCurrency = "USD"
    /\ budgets = <<>>
    /\ budgetAlertPercentage = 75
    /\ rendered = Null
    /\ converter = ConverterMounted(selectedCurrency)
    /\ currentView = "dashboard"
    /\ editingTransaction = Null
    /\ form = Null
    /\ calls = <<>>
    /\ insights = NoInsights
    /\ lastCall = Null
    /\ lastSubmit = Null
    /\ budgetManager = Null
    /\ transactionList = Null
    /\ localStorage = Mirror(transactions, recurringTransactions, budgets,
                             userCategoryOverrides, selectedCurrency, budgetAlertPercentage)
    /\ startup = Ready

NextList ==
    \/ \E view \in {"dashboard", "viewTransactions"} : OpenView(view)
    \/ ReconcileEffect
    \/ \E type \in {"all", "income", "expense"} : setFilterType(type)
    \/ \E code \in {"ALL", "USD", "EUR"} : setFilterCurrency(code)
    \/ setSortOrder
    \/ \E date \in ListDates : setStartDate(date)
    \/ \E date \in ListDates : setEndDate(date)
    \/ ClearFilters
    \/ \E i \in DOMAIN transactions, isChecked \in BOOLEAN :
           handleSelectTransaction(transactions[i].id, isChecked)
    \/ \E isChecked \in BOOLEAN : handleSelectAllTransactions(isChecked)
    \/ \E confirm \in BOOLEAN : handleBulkDelete(confirm)
    \/ \E i \in DOMAIN transactions :
           /\ transactionList # Null
           /\ transactions[i].id \in DisplayedIds(transactions, transactionList)
           /\ handleDeleteTransaction(transactions[i].id)
    \/ exportToCsv
    \/ SelectionEffect

SpecList == InitList /\ [][NextList]_vars

-----------------------------------------------------------------------------
(* Calendar-day vocabulary of the properties: dates as the user reads them, *)
(* with no time of day and no time zone.                                    *)

DateLeq(s, t) == ~DateStringBefore(t, s)

\* The calendar day that is "today" for the user at the time of a pass.
PassToday == CivilFromDays(LocalDay(lastPass.today))

\* One period after a calendar day; a month or a year is added the way a date
\* object adds it.
CalendarStep(frequency, d) ==
    CASE frequency = "daily"   -> CivilFromDays(DaysFromCivil(d[1], d[2], d[3]) + 1)
      [] frequency = "weekly"  -> CivilFromDays(DaysFromCivil(d[1], d[2], d[3]) + 7)
      [] frequency = "monthly" -> CivilFromDays(MakeDay(d[1], d[2], d[3]))
      [] frequency = "yearly"  -> CivilFromDays(MakeDay(d[1] + 1, d[2] - 1, d[3]))

\* The occurrence days of a rule from d up to today, and the first one after today.
RECURSIVE CalendarOccurrences(_, _, _, _)
CalendarOccurrences(frequency, d, today, acc) ==
    IF DateLeq(d, today)
    THEN CalendarOccurrences(frequency, CalendarStep(frequency, d), today, Append(acc, d))
    ELSE [days |-> acc, next |-> d]

\* The transactions of a pass that carry the id stamp of rule rt.
PushedFor(rt) == SelectSeq(lastPass.result.newTransactions, LAMBDA tx : tx.id.n = rt.id)

\* Rule i of the last pass was due on the user's calendar.
DueInPass(i) == DateLeq(lastPass.rules[i].nextOccurrenceDate, PassToday)

\* The pass pushed for rule i exactly the occurrence days exp.days, each under the
\* id `{ruleId}-{day}`, and left exp.next on the rule.
MaterializedAs(i, exp) ==
    LET rt  == lastPass.rules[i]
        got == PushedFor(rt)
    IN  /\ Len(got) = Len(exp.days)
        /\ \A k \in DOMAIN got :
               /\ k \in DOMAIN exp.days
               /\ got[k].date = exp.days[k]
               /\ got[k].id = OccurrenceId(rt.id, exp.days[k])
        /\ lastPass.result.updatedRecurringTxs[i].nextOccurrenceDate = exp.next
        /\ DateStringBefore(PassToday, exp.next)

-----------------------------------------------------------------------------
(* C1: in a pass over an empty transaction list, every rule whose          *)
(* next-occurrence date is <= today gets one new transaction per occurrence *)
(* date from that date up to today, dated at the successive occurrence      *)
(* dates, each with the id `{ruleId}-{occurrenceDate}`, and the rule is     *)
(* left with a next-occurrence date strictly greater than today.            *)
C1_BackfillDatesAndIds ==
    (lastPass.ran /\ lastPass.txs = <<>>) =>
        \A i \in DOMAIN lastPass.rules :
            DueInPass(i) =>
                MaterializedAs(i, CalendarOccurrences(lastPass.rules[i].frequency,
                                      lastPass.rules[i].nextOccurrenceDate,
                                      PassToday, <<>>))

\* The same statement where local time is UTC.
C1_BackfillInUTC == tz = 0 => C1_BackfillDatesAndIds

-----------------------------------------------------------------------------
(* C2: a second pass over the state a pass produced (its new transactions   *)
(* merged in, its rules stored), with no advance of today, adds no          *)
(* transaction and leaves every rule's next-occurrence date unchanged (the  *)
(* rule list is written back only when some rule was due).                  *)
SecondPass == processRecurringTransactions(recurringTransactions, transactions)

C2_Idempotent ==
    (lastPass.ran /\ Len(recurringTransactions) > 0) =>
        /\ SecondPass.newTransactions = <<>>
        /\ SecondPass.anyRecurringNextOccurrenceChanged =>
               \A i \in DOMAIN recurringTransactions :
                   SecondPass.updatedRecurringTxs[i].nextOccurrenceDate
                       = recurringTransactions[i].nextOccurrenceDate

\* The same statement where local time is UTC.
C2_IdempotentInUTC == tz = 0 => C2_Idempotent

-----------------------------------------------------------------------------
(* C3: a pass never pushes a transaction whose id is carried by an existing *)
(* transaction or by another transaction pushed in the same pass, and the   *)
(* transaction collection never holds two transactions with the same id.    *)
DistinctIds(txs) ==
    \A i, j \in DOMAIN txs : i # j => txs[i].id # txs[j].id

C3_NoDuplicateIds ==
    /\ DistinctIds(transactions)
    /\ lastPass.ran =>
           /\ DistinctIds(lastPass.result.newTransactions)
           /\ \A k \in DOMAIN lastPass.result.newTransactions :
                  ~HasId(lastPass.txs, lastPass.result.newTransactions[k].id)

\* A pass met an occurrence whose id an existing transaction carried, and pushed
\* other transactions.
C3_Witness ==
    /\ lastPass.ran
    /\ lastPass.result.newTransactions # <<>>
    /\ \E i \in DOMAIN lastPass.rules :
           /\ RuleStart(lastPass.rules[i]) <= lastPass.today
           /\ HasId(lastPass.txs,
                    OccurrenceId(lastPass.rules[i].id,
                                 ToISODate(RuleStart(lastPass.rules[i]))))

-----------------------------------------------------------------------------
(* C4: for every rule, the next-occurrence date is >= the date of the last  *)
(* transaction materialized from it, and a pass that materializes the rule  *)
(* strictly advances the next-occurrence date, by one frequency step per    *)
(* cycle.                                                                   *)
MaterializedFrom(rt) ==
    {k \in DOMAIN transactions :
        transactions[k].id.n = rt.id /\ transactions[k].id.date # <<>>}

C4_NextOccurrenceAhead ==
    /\ \A i \in DOMAIN recurringTransactions :
           \A k \in MaterializedFrom(recurringTransactions[i]) :
               DateLeq(transactions[k].id.date,
                       recurringTransactions[i].nextOccurrenceDate)
    /\ lastPass.ran =>
           \A i \in DOMAIN lastPass.rules :
               RuleStart(lastPass.rules[i]) <= lastPass.today =>
                   /\ DateStringBefore(
                          lastPass.rules[i].nextOccurrenceDate,
                          lastPass.result.updatedRecurringTxs[i].nextOccurrenceDate)
                   /\ lastPass.result.updatedRecurringTxs[i].nextOccurrenceDate
                          = CalendarOccurrences(lastPass.rules[i].frequency,
                                lastPass.rules[i].nextOccurrenceDate,
                                PassToday, <<>>).next

-----------------------------------------------------------------------------
(* C5: backfilling a monthly rule over an empty transaction list pushes     *)
(* exactly one transaction in every calendar month from the month of the    *)
(* next-occurrence date up to the month of today (the last month only if    *)
(* the day of the month has been reached).  Stated where local time is UTC. *)
MonthIndex(d) == d[1] * 12 + d[2] - 1

\* The months a monthly rule with next-occurrence date d owes up to today.
OwedMonths(d, today) ==
    {m \in MonthIndex(d)..MonthIndex(today) :
        m < MonthIndex(today) \/ d[3] <= today[3]}

C5_OnePerCalendarMonth ==
    (tz = 0 /\ lastPass.ran /\ lastPass.txs = <<>>) =>
        \A i \in DOMAIN lastPass.rules :
            (lastPass.rules[i].frequency = "monthly" /\ DueInPass(i)) =>
                \A m \in OwedMonths(lastPass.rules[i].nextOccurrenceDate, PassToday) :
                    Cardinality({k \in DOMAIN PushedFor(lastPass.rules[i]) :
                        MonthIndex(PushedFor(lastPass.rules[i])[k].date) = m}) = 1

-----------------------------------------------------------------------------
(* C6: a rule whose next-occurrence date is > today gets no transaction in  *)
(* a pass and is stored unchanged after it, also when another rule of the   *)
(* pass is due and the whole rule list is written back.                     *)
C6_NotDueUntouched ==
    lastPass.ran =>
        \A i \in DOMAIN lastPass.rules :
            ~DueInPass(i) =>
                /\ PushedFor(lastPass.rules[i]) = <<>>
                /\ recurringTransactions[i] = lastPass.rules[i]

\* The same statement where local time is UTC.
C6_NotDueUntouchedInUTC == tz = 0 => C6_NotDueUntouched

-----------------------------------------------------------------------------
(* Vocabulary of the dashboard properties: sums over sets of positions and  *)
(* the user's calendar.                                                     *)

RECURSIVE SumAmounts(_, _)
SumAmounts(entries, S) ==
    IF S = {} THEN 0
    ELSE LET i == CHOOSE j \in S : TRUE
         IN  entries[i].amount + SumAmounts(entries, S \ {i})

\* Positions of the period's transactions that are in the selected currency.
Matching ==
    {i \in DOMAIN rendered.transactionsForPeriod :
        rendered.transactionsForPeriod[i].currencyCode = selectedCurrency}

MatchingIncome ==
    {i \in Matching : rendered.transactionsForPeriod[i].type = "income"}

MatchingOf(category) ==
    {i \in Matching : rendered.transactionsForPeriod[i].category = category}

\* Position of the first matching transaction of a category.
FirstOccurrence(category) ==
    CHOOSE i \in MatchingOf(category) : \A j \in MatchingOf(category) : i <= j

\* The breakdown's total of a category.
SpentIn(category) ==
    SumAmounts(rendered.summary.categoryBreakdown,
               {i \in DOMAIN rendered.summary.categoryBreakdown :
                   rendered.summary.categoryBreakdown[i].category = category})

\* The calendar day the user's clock shows, the most recent Sunday and the first
\* day of the month on that calendar.
UserToday == CivilFromDays(LocalDay(now))

MostRecentSunday == CivilFromDays(LocalDay(now) - ((LocalDay(now) + 4) % 7))

FirstOfMonth == <<UserToday[1], UserToday[2], 1>>

-----------------------------------------------------------------------------
(* C7: the summary counts only the transactions whose currencyCode equals   *)
(* the selected one: totalIncome is the sum of the matching income amounts,  *)
(* totalExpense the sum of all other matching amounts, netSavings their      *)
(* difference; with no matching transaction all three are 0 and the          *)
(* breakdown is empty.                                                       *)
C7_SummaryOfMatching ==
    /\ rendered.summary.totalIncome =
           SumAmounts(rendered.transactionsForPeriod, MatchingIncome)
    /\ rendered.summary.totalExpense =
           SumAmounts(rendered.transactionsForPeriod, Matching \ MatchingIncome)
    /\ rendered.summary.netSavings =
           rendered.summary.totalIncome - rendered.summary.totalExpense
    /\ Matching = {} =>
           /\ rendered.summary.totalIncome = 0
           /\ rendered.summary.totalExpense = 0
           /\ rendered.summary.netSavings = 0
           /\ rendered.summary.categoryBreakdown = <<>>

\* A summary over a matching income, a matching expense and a transaction in
\* another currency.
C7_Witness ==
    /\ MatchingIncome # {}
    /\ Matching \ MatchingIncome # {}
    /\ Matching # DOMAIN rendered.transactionsForPeriod
    /\ rendered.summary.totalIncome > 0
    /\ rendered.summary.totalExpense > 0

-----------------------------------------------------------------------------
(* C8: getPeriodTransactions keeps exactly the transactions dated today      *)
(* ('daily'), on or after the most recent Sunday ('weekly'), on or after the *)
(* first day of the current month ('monthly'), the boundary day included.    *)
KeptInPeriod(tx) ==
    CASE currentPeriod = "daily"   -> tx.date = UserToday
      [] currentPeriod = "weekly"  -> DateLeq(MostRecentSunday, tx.date)
      [] currentPeriod = "monthly" -> DateLeq(FirstOfMonth, tx.date)

C8_PeriodFilter ==
    rendered.transactionsForPeriod = SelectSeq(transactions, KeptInPeriod)

\* The same statement where local time is UTC.
C8_PeriodFilterInUTC == tz = 0 => C8_PeriodFilter

-----------------------------------------------------------------------------
(* C9: in the category breakdown each category of the matching transactions *)
(* appears exactly once, in the order of its first occurrence in the        *)
(* filtered list, with the sum of the amounts of all matching transactions  *)
(* of the category, income and expense alike.                               *)
C9_BreakdownByFirstOccurrence ==
    LET breakdown == rendered.summary.categoryBreakdown
    IN  /\ \A i, j \in DOMAIN breakdown :
               i # j => breakdown[i].category # breakdown[j].category
        /\ {breakdown[i].category : i \in DOMAIN breakdown} =
               {rendered.transactionsForPeriod[i].category : i \in Matching}
        /\ \A i, j \in DOMAIN breakdown :
               i < j => FirstOccurrence(breakdown[i].category)
                            < FirstOccurrence(breakdown[j].category)
        /\ \A i \in DOMAIN breakdown :
               breakdown[i].amount =
                   SumAmounts(rendered.transactionsForPeriod,
                              MatchingOf(breakdown[i].category))

\* A breakdown of two categories, one of them fed by an income and an expense.
C9_Witness ==
    /\ Len(rendered.summary.categoryBreakdown) = 2
    /\ \E i, j \in Matching :
           /\ i < j
           /\ rendered.transactionsForPeriod[i].category
                  = rendered.transactionsForPeriod[j].category
           /\ rendered.transactionsForPeriod[i].type = "expense"
           /\ rendered.transactionsForPeriod[j].type = "income"
           /\ rendered.summary.categoryBreakdown[1].category
                  = rendered.transactionsForPeriod[i].category

-----------------------------------------------------------------------------
(* C10: the alerts are those of the budgets with amount > 0 and             *)
(* spent / amount * 100 >= the threshold, in budget order, spent being the  *)
(* category's total in the breakdown; each alert carries that percentage;   *)
(* a budget of amount 0 gives no alert.                                     *)
Fires(budget) ==
    /\ budget.amount > 0
    /\ SpentIn(budget.category) * 100 >= budgetAlertPercentage * budget.amount

C10_BudgetAlerts ==
    LET firing == SelectSeq(budgets, Fires)
    IN  /\ Len(rendered.budgetAlerts) = Len(firing)
        /\ \A k \in DOMAIN rendered.budgetAlerts :
               /\ k \in DOMAIN firing
               /\ rendered.budgetAlerts[k].category = firing[k].category
               /\ rendered.budgetAlerts[k].budget = firing[k].amount
               /\ rendered.budgetAlerts[k].spent = SpentIn(firing[k].category)
               /\ rendered.budgetAlerts[k].percentage * firing[k].amount
                      = SpentIn(firing[k].category) * 100
        /\ \A i \in DOMAIN budgets :
               budgets[i].amount = 0 =>
                   \A k \in DOMAIN rendered.budgetAlerts :
                       rendered.budgetAlerts[k].category # budgets[i].category

\* Threshold 75: a budget of 100 with 80 spent fires with percentage 80, beside
\* a budget of 0 with money spent that does not fire.
C10_Witness ==
    /\ budgetAlertPercentage = 75
    /\ \E k \in DOMAIN rendered.budgetAlerts :
           /\ rendered.budgetAlerts[k].budget = 100
           /\ rendered.budgetAlerts[k].spent = 80
           /\ rendered.budgetAlerts[k].percentage = 80
    /\ \E i \in DOMAIN budgets :
           /\ budgets[i].amount = 0
           /\ SpentIn(budgets[i].category) > 0

-----------------------------------------------------------------------------
(* C11: a result shown for a click on Convert with a positive amount and    *)
(* two different codes that both have a rate equals                         *)
(* amount / rate[from] * rate[to] for the inputs of the click (100 USD give *)
(* 90 EUR); for equal codes it is the amount unchanged, rate or no rate.    *)
C11_ConvertedByRates ==
    (converter.convertedAmount # Null /\ converter.request # Null) =>
        LET amount == converter.request.amount[1]
            from   == converter.request.from
            to     == converter.request.to
            result == converter.convertedAmount
        IN  /\ amount > 0
            /\ from = to => result.num = amount * result.den
            /\ from # to =>
                   /\ from \in DOMAIN hardcodedExchangeRates
                   /\ to \in DOMAIN hardcodedExchangeRates
                   /\ result.num * hardcodedExchangeRates[from]
                          = amount * hardcodedExchangeRates[to] * result.den
            /\ (amount = 100 /\ from = "USD" /\ to = "EUR") =>
                   result = [num |-> 90, den |-> 1]

\* The timer has delivered 90 for 100 USD -> EUR.
C11_Witness ==
    /\ converter.request = [amount |-> <<100>>, from |-> "USD", to |-> "EUR"]
    /\ converter.convertedAmount = [num |-> 90, den |-> 1]
    /\ converter.timer = Null

\* The same code on both sides, a code without a rate: the amount comes back.
C11_WitnessSameCode ==
    /\ converter.request # Null
    /\ converter.request.from = "XXX"
    /\ converter.request.to = "XXX"
    /\ converter.convertedAmount = [num |-> 45, den |-> 1]

-----------------------------------------------------------------------------
(* Vocabulary of the properties of the remote calls and the forms.          *)

\* The call failed: no API key, a network error, a rejected request, or, where the
\* response is parsed, a response that does not parse.
FailedCall(call) ==
    \/ call.outcome.kind # "response"
    \/ /\ call.function = "categorizeTransaction"
       /\ \/ call.outcome.text = Undefined
          \/ JSONParse(call.outcome.text).throws

FallbackOf(call) ==
    IF call.function = "categorizeTransaction" THEN "Others" ELSE InsightsFallback

\* The collections the caller holds.
LocalState == <<transactions, recurringTransactions, budgets, userCategoryOverrides>>

C12_WitnessInsights ==
    /\ lastCall # Null
    /\ FailedCall(lastCall)
    /\ lastCall.function = "getSpendingInsights"

\* C13: for every description and every response of the remote model,
\* categorizeTransaction returns a category of DEFAULT_CATEGORIES or the fallback
\* 'Others', never a string outside that list.
C13_CategoryInList ==
    (lastCall # Null /\ lastCall.function = "categorizeTransaction")
        => lastCall.settled.value \in AllowedCategories

\* The last step was a submit of a form, of the budget manager.
FormSubmitted ==
    /\ lastSubmit # Null
    /\ "saved" \in DOMAIN lastSubmit
    /\ "kind" \in DOMAIN lastSubmit.form

BudgetSubmitted ==
    /\ lastSubmit # Null
    /\ "saved" \in DOMAIN lastSubmit
    /\ "selectedCategory" \in DOMAIN lastSubmit.form

\* The fields of the submitted form fail a check.
InvalidFields(f) ==
    \/ Trim(f.description) = ""
    \/ f.amount = <<>>
    \/ f.amount[1] <= 0
    \/ f.date = <<>>

InvalidBudget(manager) ==
    manager.amount = <<>> \/ manager.amount[1] <= 0

\* No save callback ran in the submit: the collections are what they were.
NothingSaved ==
    /\ lastSubmit.saved = Null
    /\ transactions = lastSubmit.transactions
    /\ recurringTransactions = lastSubmit.recurringTransactions
    /\ budgets = lastSubmit.budgets
    /\ userCategoryOverrides = lastSubmit.userCategoryOverrides

\* C14: invalid input never reaches the stored collections.  The two forms call
\* onSave only with a non-empty trimmed description, an amount > 0 and a non-empty
\* date, the budget manager calls onSaveBudget only with an amount > 0; a submit that
\* fails a check sets the inline error, calls no save callback and leaves
\* transactions, rules and budgets unchanged.
C14_InvalidInputNotSaved ==
    /\ FormSubmitted =>
           IF InvalidFields(lastSubmit.form)
           THEN /\ NothingSaved
                /\ form # Null /\ form.error # Null
           ELSE /\ lastSubmit.saved.description # ""
                /\ lastSubmit.saved.amount > 0
                /\ IF lastSubmit.form.kind = "recurring"
                   THEN lastSubmit.saved.startDate # <<>>
                   ELSE lastSubmit.saved.date # <<>>
    /\ BudgetSubmitted =>
           IF InvalidBudget(lastSubmit.form)
           THEN /\ NothingSaved
                /\ budgetManager # Null /\ budgetManager.error # Null
           ELSE lastSubmit.saved.amount > 0

\* A form was submitted with a blank description, a budget with the amount 0, and a
\* valid form was saved.
C14_Witness ==
    /\ FormSubmitted
    /\ Trim(lastSubmit.form.description) = ""
    /\ lastSubmit.form.amount = <<25>>
    /\ lastSubmit.form.date # <<>>

C14_WitnessBudget ==
    /\ BudgetSubmitted
    /\ lastSubmit.form.amount = <<0>>

C14_WitnessSaved ==
    /\ FormSubmitted
    /\ lastSubmit.saved # Null
    /\ lastSubmit.form.kind = "recurring"

EqualIgnoringCase(a, b) == ToLowerCase(a) = ToLowerCase(b)

\* The overrides that match a description ignoring case.
MatchingOverrides(description) ==
    {i \in DOMAIN userCategoryOverrides :
        EqualIgnoringCase(userCategoryOverrides[i].description, description)}

\* The step types a description of more than 3 characters into a form for a new
\* record.
LongDescriptionTyped ==
    /\ form # Null
    /\ form' # Null
    /\ form.initialData = Null
    /\ form'.initialData = Null
    /\ form'.kind = form.kind
    /\ form'.description # form.description
    /\ TrimLength(form'.description) > 3

\* C15: when a description longer than 3 characters is typed into a new transaction
\* or rule form, the override list is checked first: on a match ignoring case the
\* category becomes the override's category and no remote categorization call is
\* made; the remote call is made only on a miss.
C15_OverrideBeforeRemote ==
    [][LongDescriptionTyped =>
          IF MatchingOverrides(form'.description) # {}
          THEN /\ \E i \in MatchingOverrides(form'.description) :
                      form'.category = userCategoryOverrides[i].category
               /\ calls' = calls
          ELSE calls' = Append(calls, form'.description)]_vars

\* "coffee" was typed into a new rule form while an override for "Coffee" is stored:
\* the form shows the override's category and no call is in flight.
C15_Witness ==
    /\ form # Null
    /\ form.kind = "recurring"
    /\ form.initialData = Null
    /\ form.description = "coffee"
    /\ \E i \in DOMAIN userCategoryOverrides :
           /\ userCategoryOverrides[i].description = "Coffee"
           /\ form.category = userCategoryOverrides[i].category
           /\ form.aiSuggestedCategory = userCategoryOverrides[i].category
    /\ calls = <<>>
    /\ ~form.isLoadingCategory

\* A description was typed on a miss and its call is in flight.
C15_WitnessMiss ==
    /\ form # Null
    /\ form.description = "Coffee"
    /\ userCategoryOverrides = <<>>
    /\ calls = <<"Coffee">>

\* The last step saved a transaction through the transaction form.
TransactionSaved ==
    /\ FormSubmitted
    /\ lastSubmit.form.kind = "transaction"
    /\ lastSubmit.saved # Null

\* C17: saving an edited transaction replaces exactly the transaction that has the
\* same id: the collection keeps its size, the id is unchanged and every other
\* transaction is unchanged; saving a new transaction appends exactly one
\* transaction and changes no existing one.
C17_SaveReplacesOrAppends ==
    TransactionSaved =>
        IF lastSubmit.form.initialData # Null
        THEN /\ lastSubmit.saved.id = lastSubmit.form.initialData.id
             /\ Len(transactions) = Len(lastSubmit.transactions)
             /\ \A i \in DOMAIN transactions :
                    transactions[i] = IF lastSubmit.transactions[i].id = lastSubmit.saved.id
                                      THEN lastSubmit.saved
                                      ELSE lastSubmit.transactions[i]
        ELSE /\ Len(transactions) = Len(lastSubmit.transactions) + 1
             /\ transactions[Len(transactions)] = lastSubmit.saved
             /\ \A i \in DOMAIN lastSubmit.transactions :
                    /\ transactions[i] = lastSubmit.transactions[i]
                    /\ transactions[i].id # lastSubmit.saved.id

\* One of two stored transactions was edited and saved with another description.
C17_Witness ==
    /\ TransactionSaved
    /\ lastSubmit.form.initialData # Null
    /\ lastSubmit.saved.description # lastSubmit.form.initialData.description
    /\ Len(transactions) = 2
    /\ \E i \in DOMAIN transactions : transactions[i] = lastSubmit.saved
    /\ \E i \in DOMAIN transactions : transactions[i].id # lastSubmit.saved.id

\* A new transaction was saved next to two stored ones.
C17_WitnessNew ==
    /\ TransactionSaved
    /\ lastSubmit.form.initialData = Null
    /\ Len(transactions) = 3

\* The user answered Yes on the prompt in this step.
YesClicked ==
    /\ form.showCategoryFeedbackPrompt
    /\ ~form'.showCategoryFeedbackPrompt
    /\ form'.description = form.description
    /\ form'.category = form.category

\* The user changed the description or the category in this step; a call that
\* settles changes the category as well, and is no change by the user.
ChangedByUser ==
    \/ form'.description # form.description
    \/ form'.category # form.category /\ lastCall' = Null

\* C18: a category override is added or updated only by a save in which the user
\* confirmed the override (Yes on the prompt and no later change of description or
\* category) and the saved category differs from the suggested one; every other save
\* leaves the override list unchanged.  The first conjunct: the list changes only in
\* a save of a form that is confirmed and whose category differs from its
\* suggestion, and then it gets the saved description with the saved category.  The
\* second: a form is confirmed only from a Yes on, until the user's next change.
C18_OverrideOnlyWhenConfirmed ==
    [][/\ userCategoryOverrides' # userCategoryOverrides =>
              /\ form # Null
              /\ form.isCategoryOverrideConfirmed
              /\ Truthy(form.aiSuggestedCategory)
              /\ form.category # form.aiSuggestedCategory
              /\ lastSubmit' # Null /\ lastSubmit'.saved # Null
              /\ lastSubmit'.saved.category = form.category
              /\ \E i \in DOMAIN userCategoryOverrides' :
                     /\ userCategoryOverrides'[i] =
                            [description |-> lastSubmit'.saved.description,
                             category    |-> lastSubmit'.saved.category]
                     /\ \A j \in DOMAIN userCategoryOverrides :
                            j # i => userCategoryOverrides'[j] = userCategoryOverrides[j]
       /\ (form # Null /\ form' # Null /\ form'.isCategoryOverrideConfirmed) =>
              \/ YesClicked
              \/ form.isCategoryOverrideConfirmed /\ ~ChangedByUser
       /\ (form = Null /\ form' # Null) => ~form'.isCategoryOverrideConfirmed]_vars

\* A confirmed save has put an override for the saved description in the list.
C18_Witness ==
    /\ FormSubmitted
    /\ lastSubmit.saved # Null
    /\ lastSubmit.form.isCategoryOverrideConfirmed
    /\ userCategoryOverrides # lastSubmit.userCategoryOverrides

\* A save after No, with a category that differs from the suggestion, has left the
\* list as it was.
C18_WitnessNo ==
    /\ FormSubmitted
    /\ lastSubmit.saved # Null
    /\ ~lastSubmit.form.isCategoryOverrideConfirmed
    /\ Truthy(lastSubmit.form.aiSuggestedCategory)
    /\ lastSubmit.form.category # lastSubmit.form.aiSuggestedCategory
    /\ lastSubmit.form.category # "Others"
    /\ ~lastSubmit.form.showCategoryFeedbackPrompt
    /\ userCategoryOverrides = lastSubmit.userCategoryOverrides

\* The positions of the overrides for a description, ignoring case.
OverridesFor(overrides, description) ==
    {i \in DOMAIN overrides : EqualIgnoringCase(overrides[i].description, description)}

\* The last step was a save that changed the override list.
OverrideSaved ==
    /\ FormSubmitted
    /\ lastSubmit.saved # Null
    /\ userCategoryOverrides # lastSubmit.userCategoryOverrides

\* C19: the override list is a map keyed by lower-cased description: after any
\* sequence of transaction and rule saves it never holds two overrides whose
\* descriptions are equal ignoring case, and a later confirmed override for the same
\* description replaces the earlier category.
C19_OverridesKeyedByDescription ==
    /\ \A i, j \in DOMAIN userCategoryOverrides :
           i # j => ~EqualIgnoringCase(userCategoryOverrides[i].description,
                                       userCategoryOverrides[j].description)
    /\ OverrideSaved =>
           /\ \A i \in OverridesFor(userCategoryOverrides, lastSubmit.saved.description) :
                  userCategoryOverrides[i].category = lastSubmit.saved.category
           /\ OverridesFor(userCategoryOverrides, lastSubmit.saved.description) # {}
           /\ OverridesFor(lastSubmit.userCategoryOverrides, lastSubmit.saved.description) # {}
                  => Len(userCategoryOverrides) = Len(lastSubmit.userCategoryOverrides)

\* The stored override for "Coffee" was replaced by a confirmed save of "coffee" with
\* another category.
C19_Witness ==
    /\ OverrideSaved
    /\ lastSubmit.saved.description = "coffee"
    /\ lastSubmit.userCategoryOverrides = <<[description |-> "Coffee", category |-> "Transport"]>>
    /\ userCategoryOverrides = <<[description |-> "coffee", category |-> "Food"]>>

\* The last step deleted a budget.
BudgetDeleted ==
    /\ lastSubmit # Null
    /\ "deleted" \in DOMAIN lastSubmit

BudgetSet(bs) == {bs[i] : i \in DOMAIN bs}

\* C20: after any sequence of budget saves and deletes the budget set holds at most
\* one budget per category and every stored amount is > 0; saving a budget for a
\* category that already has one replaces its amount, deleting removes exactly that
\* category's budget.
C20_OneBudgetPerCategory ==
    /\ \A i, j \in DOMAIN budgets : i # j => budgets[i].category # budgets[j].category
    /\ \A i \in DOMAIN budgets : budgets[i].amount > 0
    /\ (BudgetSubmitted /\ lastSubmit.saved # Null) =>
           IF \E i \in DOMAIN lastSubmit.budgets :
                  lastSubmit.budgets[i].category = lastSubmit.saved.category
           THEN /\ Len(budgets) = Len(lastSubmit.budgets)
                /\ \A i \in DOMAIN budgets :
                       budgets[i] = IF lastSubmit.budgets[i].category = lastSubmit.saved.category
                                    THEN lastSubmit.saved
                                    ELSE lastSubmit.budgets[i]
           ELSE budgets = Append(lastSubmit.budgets, lastSubmit.saved)
    /\ BudgetDeleted =>
           /\ Len(budgets) = Len(lastSubmit.budgets) - 1
           /\ BudgetSet(budgets) =
                  {b \in BudgetSet(lastSubmit.budgets) : b.category # lastSubmit.deleted}

\* A save has replaced the amount of a category that had a budget, next to another
\* budget.
C20_Witness ==
    /\ BudgetSubmitted
    /\ lastSubmit.saved # Null
    /\ Len(budgets) = 2
    /\ \E i \in DOMAIN lastSubmit.budgets :
           /\ lastSubmit.budgets[i].category = lastSubmit.saved.category
           /\ lastSubmit.budgets[i].amount # lastSubmit.saved.amount
           /\ budgets[i] = lastSubmit.saved

\* One of two budgets was deleted.
C20_WitnessDelete ==
    /\ BudgetDeleted
    /\ Len(lastSubmit.budgets) = 2
    /\ Len(budgets) = 1

\* What the write-through effects store for the state in memory.
InMemory ==
    Mirror(transactions, recurringTransactions, budgets, userCategoryOverrides,
           selectedCurrency, budgetAlertPercentage)

\* All pending effects have run.
Settled == startup = Ready /\ ~effectPending

CollectionKeys ==
    {"smartExpenseTransactions", "smartExpenseRecurringTransactions",
     "smartExpenseBudgets", "smartExpenseCategoryOverrides"}

\* A stored collection with at least one element.
HoldsData(stored) == stored # Null /\ stored # Stringify(<<>>)

\* The key held data when App was mounted and now holds the empty initial state.
ReplacedByInitialState(key) ==
    /\ startup # Ready
    /\ "found" \in DOMAIN startup
    /\ HoldsData(startup.found[key])
    /\ localStorage[key] = Stringify(<<>>)

\* The first half of C16: in every settled state the value stored under each key is
\* what the state in memory serializes to.
C16_SettledMirror == Settled => localStorage = InMemory

\* C16: local storage is a write-through mirror: in every settled state after any
\* sequence of start-up, saves, deletes and reconciliation passes the value stored
\* under each key equals the collection in memory, and start-up (the load followed by
\* the initial write-through effects) never replaces previously stored data by the
\* empty initial state.
C16_WriteThroughMirror ==
    /\ Settled => localStorage = InMemory
    /\ \A key \in CollectionKeys : ~ReplacedByInitialState(key)

\* After start-up on a full store, a rule save and a delete, the store mirrors the
\* memory.
C16_WitnessSettled ==
    /\ Settled
    /\ localStorage = InMemory
    /\ Len(transactions) = 0
    /\ Len(recurringTransactions) = 2

-----------------------------------------------------------------------------
(* C21: deleting, with one id or with the selected ids, removes exactly the *)
(* transactions whose ids were given and leaves the others as they were, in *)
(* their order.  A bulk delete gives exactly the selected ids and clears    *)
(* the selection; with an empty selection or a declined confirmation no     *)
(* transaction is deleted and the selection stays.                          *)

\* The step ran a delete handler.
DeleteClicked == lastSubmit' # Null /\ "onDelete" \in DOMAIN lastSubmit'

BulkDeleteClicked == lastSubmit' # Null /\ "bulkDelete" \in DOMAIN lastSubmit'

\* The transactions whose id is none of ids, as they stood.
Remaining(txs, ids) ==
    LET kept == {i \in DOMAIN txs : txs[i].id \notin ids}
        Pick[n \in 0..Len(txs)] ==
            IF n = 0 THEN <<>>
            ELSE IF n \in kept THEN Append(Pick[n - 1], txs[n]) ELSE Pick[n - 1]
    IN  Pick[Len(txs)]

C21_DeleteExactlyGivenIds ==
    [][/\ DeleteClicked => transactions' = Remaining(transactions, lastSubmit'.onDelete)
       /\ BulkDeleteClicked =>
              IF transactionList.selectedTransactionIds = {} \/ ~lastSubmit'.confirm
              THEN /\ transactions' = transactions
                   /\ transactionList'.selectedTransactionIds =
                          transactionList.selectedTransactionIds
              ELSE /\ lastSubmit'.onDelete = transactionList.selectedTransactionIds
                   /\ transactionList'.selectedTransactionIds = {}]_vars

\* Two of three transactions were selected and deleted.
C21_Witness ==
    /\ lastSubmit # Null
    /\ "bulkDelete" \in DOMAIN lastSubmit
    /\ Cardinality(lastSubmit.onDelete) = 2
    /\ Len(transactions) = 1
    /\ transactionList.selectedTransactionIds = {}

\* The confirmation of a bulk delete was declined.
C21_WitnessDeclined ==
    /\ lastSubmit # Null
    /\ "bulkDelete" \in DOMAIN lastSubmit
    /\ lastSubmit.bulkDelete # {}
    /\ ~lastSubmit.confirm
    /\ Len(transactions) = 3
    /\ transactionList.selectedTransactionIds = lastSubmit.bulkDelete

\* The delete button of one row was clicked.
C21_WitnessOne ==
    /\ lastSubmit # Null
    /\ "onDelete" \in DOMAIN lastSubmit
    /\ "bulkDelete" \notin DOMAIN lastSubmit
    /\ Len(transactions) = 2

-----------------------------------------------------------------------------
(* C25: once the selection effect has run, every selected id is the id of a *)
(* transaction displayed under the type, currency and date filters; so a    *)
(* bulk delete or an export of the selection made then acts on displayed    *)
(* transactions only.                                                       *)

\* The list is mounted and its selection effect has nothing left to do.
SelectionSettled == transactionList # Null /\ ~transactionList.selectionEffectPending

C25_SelectionDisplayed ==
    [][/\ SelectionSettled' =>
              transactionList'.selectedTransactionIds
                  \subseteq DisplayedIds(transactions', transactionList')
       /\ SelectionSettled /\ BulkDeleteClicked =>
              lastSubmit'.onDelete \subseteq DisplayedIds(transactions, transactionList)
       /\ SelectionSettled /\ lastSubmit' # Null /\ "exported" \in DOMAIN lastSubmit' =>
              lastSubmit'.exported \subseteq DisplayedIds(transactions, transactionList)]_vars

\* The type and date filters hide transactions and every displayed one is selected.
C25_Witness ==
    /\ SelectionSettled
    /\ transactionList.filterType = "expense"
    /\ transactionList.startDate # <<>>
    /\ transactionList.selectedTransactionIds # {}
    /\ transactionList.selectedTransactionIds = DisplayedIds(transactions, transactionList)
    /\ Cardinality(DisplayedIds(transactions, transactionList)) < Len(transactions)

\* The narrowed selection was deleted in bulk.
C25_WitnessDelete ==
    /\ lastSubmit # Null
    /\ "bulkDelete" \in DOMAIN lastSubmit
    /\ lastSubmit.onDelete # {}
    /\ transactionList.filterCurrency = "EUR"
    /\ Len(transactions) = 2

-----------------------------------------------------------------------------
(* C22: a categorization response that arrives after the description it was *)
(* requested for has been replaced in the form is discarded: it changes     *)
(* neither the category nor the AI-suggested category of the form.          *)

\* The step settles a categorization call of the mounted form.
CategorizationArrives ==
    /\ lastCall' # Null
    /\ lastCall'.function = "categorizeTransaction"

\* The call was made for a description the form no longer holds.
StaleResponse == CategorizationArrives /\ lastCall'.description # form.description

C22_StaleResponseDiscarded ==
    [][StaleResponse =>
           /\ form'.category = form.category
           /\ form'.aiSuggestedCategory = form.aiSuggestedCategory]_vars

-----------------------------------------------------------------------------
(* C23: while a categorization request of the mounted form is in flight,    *)
(* the form's pending indicator isLoadingCategory, which also disables the  *)
(* category selector, is true; it is false only when no request is left.    *)

\* Requests of the mounted form that have not settled.
RequestsInFlight == IF form # Null THEN Len(calls) ELSE 0

C23_PendingWhileInFlight == RequestsInFlight > 0 => form.isLoadingCategory

-----------------------------------------------------------------------------
(* C24: an alert is shown for a budget only when the category's spend, the  *)
(* sum of the expense transactions of the category among the period's       *)
(* transactions in the selected currency, has reached the threshold         *)
(* percentage of the budget; income in the category raises no alert.        *)

\* Positions of the matching expenses of a category.
ExpensesOf(category) ==
    {i \in MatchingOf(category) : rendered.transactionsForPeriod[i].type = "expense"}

ExpenseSpend(category) == SumAmounts(rendered.transactionsForPeriod, ExpensesOf(category))

C24_AlertOnlyOnSpend ==
    \A k \in DOMAIN rendered.budgetAlerts :
        ExpenseSpend(rendered.budgetAlerts[k].category) * 100
            >= budgetAlertPercentage * rendered.budgetAlerts[k].budget

-----------------------------------------------------------------------------
(* C26: a submit of the budget manager made while no budget is edited saves *)
(* a budget for the category its category select shows, and that category   *)
(* had no budget: add mode never replaces the amount of an existing budget. *)

\* The options the select of a manager in add mode offers over the budgets bs.
OptionsOver(bs) == SelectSeq(DEFAULT_CATEGORIES, LAMBDA c : ~HasBudget(bs, c))

\* What a select shows whose value is the manager's selectedCategory: the option of
\* that value, and the first option when no option has it.
ShownCategory(manager, bs) ==
    IF \E i \in DOMAIN OptionsOver(bs) : OptionsOver(bs)[i] = manager.selectedCategory
    THEN manager.selectedCategory
    ELSE IF OptionsOver(bs) # <<>> THEN OptionsOver(bs)[1] ELSE ""

\* The last step saved a budget from a manager that edited none.
SavedInAddMode ==
    /\ BudgetSubmitted
    /\ lastSubmit.saved # Null
    /\ lastSubmit.form.editingBudget = Null

C26_AddModeKeepsBudgets ==
    SavedInAddMode =>
        /\ lastSubmit.saved.category = ShownCategory(lastSubmit.form, lastSubmit.budgets)
        /\ ~HasBudget(lastSubmit.budgets, lastSubmit.saved.category)

-----------------------------------------------------------------------------
(* C27: a converted amount on display is the conversion of the amount, the  *)
(* source currency and the target currency the converter's fields hold at   *)
(* that moment; a delayed conversion never shows its result beside inputs   *)
(* changed after its click.                                                 *)

\* result is amount / rate[from] * rate[to], the amount itself for equal codes.
ConversionOf(result, amount, from, to) ==
    IF from = to THEN result.num = amount * result.den
    ELSE /\ from \in DOMAIN hardcodedExchangeRates
         /\ to \in DOMAIN hardcodedExchangeRates
         /\ result.num * hardcodedExchangeRates[from]
                = amount * hardcodedExchangeRates[to] * result.den

C27_ResultOfShownInputs ==
    converter.convertedAmount # Null =>
        /\ converter.fromAmount # <<>>
        /\ ConversionOf(converter.convertedAmount, converter.fromAmount[1],
                        converter.fromCurrency, converter.toCurrency)

-----------------------------------------------------------------------------
(* C28: when the 'Add Transaction' navigation button opens the transaction  *)
(* form, or 'Add New Recurring' the rule form, the form is in create mode:  *)
(* no transaction or rule is marked as being edited and the form starts     *)
(* without initial data, so that its save appends a record.                 *)

\* The step is a click on the edit button of a row.
EditClicked == lastSubmit' # Null /\ "onEdit" \in DOMAIN lastSubmit'

\* The step opens the view through setCurrentView alone.
OpenedByNavigation(view) ==
    /\ currentView # view
    /\ currentView' = view
    /\ ~EditClicked

C28_AddOpensCreateMode ==
    [][/\ OpenedByNavigation("addTransaction") =>
              /\ editingTransaction' = Null
              /\ form'.initialData = Null
       /\ OpenedByNavigation("addRecurringTransaction") =>
              /\ editingRecurringTransaction' = Null
              /\ form'.initialData = Null]_vars

-----------------------------------------------------------------------------
(* C29: the reconciliation effect settles in every time zone: after finitely*)
(* many passes no rule is due and no state update is issued.  A pass works  *)
(* on the transactions, the rules and the day alone, so a pass that leaves  *)
(* transactions and rules as they were and still issues a state update is   *)
(* followed by the same pass without end; the effect settles only if no     *)
(* pass is of that kind, and a pass without update leaves no rule due.      *)

\* The step is a pass of the reconciliation effect over at least one rule.
PassRuns == passes' = passes + 1

\* The rule's next occurrence, read the way the effect reads it, is not after today.
StillDue(rt) == SetHoursZero(ParseDate(rt.nextOccurrenceDate)) <= SetHoursZero(now)

C29_EffectSettles ==
    [][PassRuns =>
           /\ (transactions' = transactions /\ recurringTransactions' = recurringTransactions)
                  => ~effectPending'
           /\ ~effectPending' =>
                  \A i \in DOMAIN recurringTransactions' :
                      ~StillDue(recurringTransactions'[i])]_vars

-----------------------------------------------------------------------------
(* C30: the reporting periods are nested around today: at every moment and  *)
(* in every time zone each transaction getPeriodTransactions returns for    *)
(* 'daily' is among those it returns for 'weekly' and for 'monthly'.        *)

\* The ids of what getPeriodTransactions returns for a period at this moment.
ReturnedFor(period) ==
    {getPeriodTransactions(transactions, period)[i].id :
        i \in DOMAIN getPeriodTransactions(transactions, period)}

C30_PeriodsNested ==
    /\ ReturnedFor("daily") \subseteq ReturnedFor("weekly")
    /\ ReturnedFor("daily") \subseteq ReturnedFor("monthly")

====
